---- MODULE Spec2Model ----
(***************************************************************************)
(* Reconciliation and fuzzy-match engine of the annual-report module       *)
(* (annual_report_ai/data_validator.py and                                 *)
(* annual_report_ai/financial_reconciliation.py).                          *)
(*                                                                         *)
(* The engine is a set of synchronous functions over in-memory tables.     *)
(* Each specification below draws the arguments of a family of calls from  *)
(* bounded sets (Init) and has one action per function, which computes the *)
(* function's return value the way the source computes it.                 *)
(*                                                                         *)
(* Conventions                                                             *)
(*  - A Python str is a sequence of one-character strings.  A Chinese row  *)
(*    label is a sequence of tokens, one token per character (the token is *)
(*    the character's pinyin, numbered where two characters share one), so *)
(*    that `a in b` is containment of a contiguous subsequence.            *)
(*  - A Python float is an exact decimal [kind |-> "num", n, k] = n/10^k,  *)
(*    normalised; "inf" and "nan" are the two non-finite floats float()    *)
(*    can return; None is the value NoneVal.  Every number that occurs in  *)
(*    the bounded inputs has at most 7 significant digits, where decimal   *)
(*    comparison and double comparison agree.                              *)
(*    Sums and differences are exact here and rounded in the program; the  *)
(*    properties below read a difference only where its operands are       *)
(*    integers.                                                            *)
(***************************************************************************)
EXTENDS Integers, Sequences, FiniteSets, TLC

VARIABLES
    tolerance,           \* self.tolerance of the validator object
    validation_results,  \* DataValidator.validation_results
    pc,                  \* "call" before the call, the function's name after it
    args,                \* the arguments of the call (a record)
    result               \* the value the call returned

vars == <<tolerance, validation_results, pc, args, result>>

(***************************************************************************)
(* Bounds of the model.                                                    *)
(***************************************************************************)
MaxStrLen == 4          \* longest raw cell string enumerated character by character
MaxIntDigits == 5       \* digits of the integer part of a formatted decimal
MaxFracDigits == 2      \* digits after the decimal point of a formatted decimal
MaxNoteItems == 3       \* longest list of candidate labels handed to the Synonym Resolver
MaxExtractRows == 2     \* rows of a table handed to the three table extractors
MaxNoteRows == 2        \* rows of a note table handed to _reconcile_tables
MaxSumRows == 3         \* rows of a table handed to validate_summation
MaxCrossRows == 2       \* rows of the current report's statement table
MaxMissing == 1         \* items of a rule left out of the financial data
MaxDiff == 1001         \* largest difference handed to the severity classifier

(***************************************************************************)
(* Python values.                                                          *)
(***************************************************************************)
NoneVal == [kind |-> "None", n |-> 0, k |-> 0]
NaN == [kind |-> "nan", n |-> 0, k |-> 0]
Inf(sign) == [kind |-> "inf", n |-> sign, k |-> 0]
ValueError == [kind |-> "ValueError", n |-> 0, k |-> 0]

RECURSIVE Pow10(_)
Pow10(k) == IF k = 0 THEN 1 ELSE 10 * Pow10(k - 1)

\* the float n / 10^k
RECURSIVE Num(_, _)
Num(n, k) ==
    IF k = 0 \/ n % 10 # 0 THEN [kind |-> "num", n |-> n, k |-> k]
    ELSE Num(n \div 10, k - 1)

Int2Num(i) == Num(i, 0)
Max(a, b) == IF a >= b THEN a ELSE b
Scaled(x, k) == x.n * Pow10(k - x.k)

\* float arithmetic and comparison; inf and nan behave as IEEE 754 has them
Neg(x) ==
    CASE x.kind = "num" -> Num(0 - x.n, x.k)
      [] x.kind = "inf" -> Inf(0 - x.n)
      [] OTHER -> x
Add(x, y) ==
    IF x.kind = "nan" \/ y.kind = "nan" THEN NaN
    ELSE IF x.kind = "inf" /\ y.kind = "inf" THEN (IF x.n = y.n THEN x ELSE NaN)
    ELSE IF x.kind = "inf" THEN x
    ELSE IF y.kind = "inf" THEN y
    ELSE LET k == Max(x.k, y.k) IN Num(Scaled(x, k) + Scaled(y, k), k)
Sub(x, y) == Add(x, Neg(y))
Abs(x) == IF x.n < 0 THEN Neg(x) ELSE x
Mul(x, y) == Num(x.n * y.n, x.k + y.k)
Gt(x, y) ==
    IF x.kind = "nan" \/ y.kind = "nan" THEN FALSE
    ELSE IF x.kind = "inf" THEN x.n > 0 /\ y # x
    ELSE IF y.kind = "inf" THEN y.n < 0
    ELSE LET k == Max(x.k, y.k) IN Scaled(x, k) > Scaled(y, k)
Le(x, y) == x.kind # "nan" /\ y.kind # "nan" /\ ~Gt(x, y)
IsZero(x) == x.kind = "num" /\ x.n = 0

(***************************************************************************)
(* Python str operations.                                                  *)
(***************************************************************************)
Digits == {"0", "1", "2", "3", "4", "5", "6", "7", "8", "9"}
DigitVal(c) ==
    CASE c = "0" -> 0 [] c = "1" -> 1 [] c = "2" -> 2 [] c = "3" -> 3
      [] c = "4" -> 4 [] c = "5" -> 5 [] c = "6" -> 6 [] c = "7" -> 7
      [] c = "8" -> 8 [] c = "9" -> 9

\* s.replace(c, '')
RECURSIVE Remove(_, _)
Remove(s, c) ==
    IF s = <<>> THEN <<>>
    ELSE IF Head(s) = c THEN Remove(Tail(s), c)
    ELSE <<Head(s)>> \o Remove(Tail(s), c)

\* s.strip(): the only whitespace of the modelled alphabet is the space
RECURSIVE LStrip(_)
LStrip(s) == IF s # <<>> /\ Head(s) = " " THEN LStrip(Tail(s)) ELSE s
RECURSIVE RStrip(_)
RStrip(s) ==
    IF s # <<>> /\ s[Len(s)] = " " THEN RStrip(SubSeq(s, 1, Len(s) - 1)) ELSE s
Strip(s) == LStrip(RStrip(s))

\* s.startswith(c) for a one-character c
StartsWith(s, c) == s # <<>> /\ Head(s) = c

\* a in b for two str: a is a contiguous subsequence of b
Contains(b, a) ==
    \E i \in 0..(Len(b) - Len(a)) : \A j \in 1..Len(a) : b[i + j] = a[j]

\* s.lower() on the letters of the modelled alphabet
LowerChar(c) ==
    CASE c = "N" -> "n" [] c = "A" -> "a" [] c = "I" -> "i" [] c = "F" -> "f"
      [] OTHER -> c
Lower(s) == [i \in 1..Len(s) |-> LowerChar(s[i])]

(***************************************************************************)
(* float(s) for a str s over the modelled alphabet: optional surrounding   *)
(* whitespace, an optional sign, then inf / infinity / nan in any case, or *)
(* digits with at most one decimal point and at least one digit.  Anything *)
(* else raises ValueError.  (Exponents, underscores and '+' are outside    *)
(* the modelled alphabet.)                                                 *)
(***************************************************************************)
IsDigitDot(c) == c \in Digits \/ c = "."

RECURSIVE DigitsValue(_, _)
DigitsValue(s, acc) ==
    IF s = <<>> THEN acc
    ELSE DigitsValue(Tail(s), IF Head(s) = "." THEN acc ELSE 10 * acc + DigitVal(Head(s)))

RECURSIVE DotPos(_)
DotPos(s) == IF s = <<>> THEN 0 ELSE IF s[Len(s)] = "." THEN Len(s)
             ELSE DotPos(SubSeq(s, 1, Len(s) - 1))

UnsignedFloat(s) ==
    LET dots == Cardinality({i \in 1..Len(s) : s[i] = "."})
        digs == Cardinality({i \in 1..Len(s) : s[i] \in Digits})
    IN  IF (\A i \in 1..Len(s) : IsDigitDot(s[i])) /\ dots <= 1 /\ digs >= 1
        THEN Num(DigitsValue(s, 0), IF dots = 0 THEN 0 ELSE Len(s) - DotPos(s))
        ELSE IF Lower(s) \in {<<"i", "n", "f">>, <<"i", "n", "f", "i", "n", "i", "t", "y">>}
        THEN Inf(1)
        ELSE IF Lower(s) = <<"n", "a", "n">> THEN NaN
        ELSE ValueError

float(s) ==
    LET t == Strip(s)
    IN  IF StartsWith(t, "-") THEN Neg(UnsignedFloat(Tail(t))) ELSE UnsignedFloat(t)

\* re.search(r'[\d.]+', s).group(): the first maximal run of digits and dots,
\* <<>> when there is no match
RECURSIVE TakeRun(_)
TakeRun(s) ==
    IF s # <<>> /\ IsDigitDot(Head(s)) THEN <<Head(s)>> \o TakeRun(Tail(s)) ELSE <<>>
RECURSIVE FirstRun(_)
FirstRun(s) ==
    IF s = <<>> THEN <<>>
    ELSE IF IsDigitDot(Head(s)) THEN TakeRun(s)
    ELSE FirstRun(Tail(s))

(***************************************************************************)
(* The Value Extractor, at its two sites.                                  *)
(***************************************************************************)
\* a slip that leaves the thousands separators in place
Cleaned_KeepCommas(value_str) == Strip(Remove(value_str, " "))

\* value_str.replace(',', '').replace(' ', '').strip()
Cleaned(value_str) == Strip(Remove(Remove(value_str, ","), " "))

\* the negative-number branch shared by the two parsers
IsNegative(s) == StartsWith(s, "-") \/ StartsWith(s, "(")
Unsigned(s) == IF IsNegative(s) THEN Remove(Remove(Remove(s, "-"), "("), ")") ELSE s

DV_NullStrings == {<<>>, <<"N", "o", "n", "e">>, <<"n", "a", "n">>, <<"-">>}

DataValidator_parse_number(value_str) ==
    IF value_str \in DV_NullStrings THEN NoneVal
    ELSE LET s == Cleaned(value_str)
             run == FirstRun(Unsigned(s))
             value == float(run)
         IN  IF run = <<>> THEN NoneVal
             ELSE IF value.kind = "ValueError" THEN NoneVal
             ELSE IF IsNegative(s) THEN Neg(value) ELSE value

FR_NullStrings == DV_NullStrings \cup {<<"N", "a", "N">>}

FinancialReconciliation_parse_number(value_str) ==
    IF value_str \in FR_NullStrings THEN NoneVal
    ELSE LET s == Cleaned(value_str)
             value == float(Unsigned(s))
         IN  IF value.kind = "ValueError" THEN NoneVal
             ELSE IF IsNegative(s) THEN Neg(value) ELSE value

(***************************************************************************)
(* SpecParse: one raw cell string handed to each parser.                   *)
(***************************************************************************)
Alphabet == {"0", "1", ".", ",", "-", "(", ")", " ", "Y"}   \* "Y" stands for a currency suffix such as 元

Strings(maxLen) == UNION {[1..n -> Alphabet] : n \in 0..maxLen}

\* whole-word cells: str(None), str(float('nan')), str(float('inf')) and variants
WordCells ==
    { <<"N", "o", "n", "e">>, <<"n", "a", "n">>, <<"N", "a", "N">>, <<"N", "A", "N">>,
      <<" ", "n", "a", "n">>, <<"i", "n", "f">>, <<"-", "i", "n", "f">>,
      <<"(", "i", "n", "f", ")">>, <<"I", "n", "f">>,
      <<"i", "n", "f", "i", "n", "i", "t", "y">> }

InitParse ==
    /\ tolerance = Int2Num(2)
    /\ validation_results = <<>>
    /\ pc = "call"
    /\ \E s \in Strings(MaxStrLen) \cup WordCells : args = [value_str |-> s]
    /\ result = NoneVal

Call_DataValidator_parse_number ==
    /\ pc = "call"
    /\ "value_str" \in DOMAIN args
    /\ result' = DataValidator_parse_number(args.value_str)
    /\ pc' = "DataValidator._parse_number"
    /\ UNCHANGED <<tolerance, validation_results, args>>

Call_FinancialReconciliation_parse_number ==
    /\ pc = "call"
    /\ "value_str" \in DOMAIN args
    /\ result' = FinancialReconciliation_parse_number(args.value_str)
    /\ pc' = "FinancialReconciliation._parse_number"
    /\ UNCHANGED <<tolerance, validation_results, args>>

NextParse ==
    \/ Call_DataValidator_parse_number
    \/ Call_FinancialReconciliation_parse_number

SpecParse == InitParse /\ [][NextParse]_vars

(***************************************************************************)
(* C10.  Both parsers return None, never 0, for '', 'None', 'nan', '-' and *)
(* for every string without a digit, and return 0 only for a string whose  *)
(* number is written with zero digits alone.                               *)
(***************************************************************************)
HasDigit(s) == \E i \in 1..Len(s) : s[i] \in Digits

\* the characters of s from its first digit up to the first character that
\* cannot continue a number (anything but a digit, '.', ',' or ' ')
RECURSIVE NumberText(_, _)
NumberText(s, started) ==
    IF s = <<>> THEN <<>>
    ELSE IF Head(s) \in Digits \cup {"."} THEN <<Head(s)>> \o NumberText(Tail(s), TRUE)
    ELSE IF ~started \/ Head(s) \in {",", " "} THEN NumberText(Tail(s), started)
    ELSE <<>>

DenotesZero(s) ==
    /\ HasDigit(s)
    /\ \A i \in 1..Len(NumberText(s, FALSE)) :
           NumberText(s, FALSE)[i] \in Digits => NumberText(s, FALSE)[i] = "0"

AbsentValueStrings == {<<>>, <<"N", "o", "n", "e">>, <<"n", "a", "n">>, <<"-">>}

\* C10 as claimed: both parsers return None for '', 'None', 'nan', '-' and every
\* string without a digit, and 0 only for a string whose digits denote zero
C10_NullOnAbsent ==
    pc \in {"DataValidator._parse_number", "FinancialReconciliation._parse_number"}
        => /\ (args.value_str \in AbsentValueStrings \/ ~HasDigit(args.value_str))
                 => result = NoneVal
           /\ IsZero(result) => DenotesZero(args.value_str)

(***************************************************************************)
(* C11.  A cell whose text is one number with other content (a currency    *)
(* suffix such as 元) before or after it parses, at both sites, to the     *)
(* number denoted by its first run of digits with a single decimal point.  *)
(***************************************************************************)
\* s is a run of digits holding at most one '.', and at least one digit
IsPlainNumber(s) ==
    /\ \A i \in 1..Len(s) : IsDigitDot(s[i])
    /\ Cardinality({i \in 1..Len(s) : s[i] = "."}) <= 1
    /\ HasDigit(s)

\* s is currency marks, one plain number, currency marks, with at least one mark
IsNumberWithOtherContent(s) ==
    \E i \in 1..Len(s) : \E j \in i..Len(s) :
        /\ IsPlainNumber(SubSeq(s, i, j))
        /\ \A k \in (1..Len(s)) \ (i..j) : s[k] = "Y"
        /\ i > 1 \/ j < Len(s)

\* the number a plain run of digits denotes: its digits, scaled by the number
\* of digits after the decimal point
Denoted(run) ==
    LET point == CHOOSE i \in 1..(Len(run) + 1) :
                     (i <= Len(run) /\ run[i] = ".")
                         \/ (i = Len(run) + 1 /\ \A k \in 1..Len(run) : run[k] # ".")
    IN  Num(DigitsValue(run, 0), Max(0, Len(run) - point))

\* C11: at both sites a number with a currency mark before or after it parses to
\* the number its first run of digits denotes, the marks being ignored
C11_FirstRunOfDigits ==
    (pc \in {"DataValidator._parse_number", "FinancialReconciliation._parse_number"}
        /\ IsNumberWithOtherContent(args.value_str))
        => result = Denoted(FirstRun(args.value_str))

(***************************************************************************)
(* SpecRoundTrip: a decimal d rendered with ',' thousands separators and,  *)
(* when negative, a leading '-' or enclosing parentheses, handed to each   *)
(* parser.  d is [neg, int, frac]: its sign, the digits of its integer     *)
(* part (no leading zero) and the digits after the decimal point.          *)
(***************************************************************************)
FormatDigits == {"0", "1", "5"}

IntParts ==
    {s \in UNION {[1..n -> FormatDigits] : n \in 1..MaxIntDigits} : Len(s) = 1 \/ s[1] # "0"}
FracParts == UNION {[1..n -> FormatDigits] : n \in 0..MaxFracDigits}

\* the decimals of the worked examples: 1234.50, 1000 and 1000000 (two separators)
ExampleDecimals ==
    { [int |-> <<"1", "2", "3", "4">>, frac |-> <<"5", "0">>],
      [int |-> <<"1", "0", "0", "0">>, frac |-> <<>>],
      [int |-> <<"1", "0", "0", "0", "0", "0", "0">>, frac |-> <<>>] }

Decimals ==
    {[int |-> i, frac |-> f] : i \in IntParts, f \in FracParts} \cup ExampleDecimals

Styles == {"plain", "minus", "parens"}   \* d >= 0; d <= 0 as -x; d <= 0 as (x)

\* the digits of an integer part with a ',' before every group of three
RECURSIVE Grouped(_)
Grouped(int) ==
    IF Len(int) <= 3 THEN int
    ELSE Grouped(SubSeq(int, 1, Len(int) - 3)) \o <<",">> \o SubSeq(int, Len(int) - 2, Len(int))

Format(d, style) ==
    LET body == Grouped(d.int) \o (IF d.frac = <<>> THEN <<>> ELSE <<".">> \o d.frac)
    IN  CASE style = "plain" -> body
          [] style = "minus" -> <<"-">> \o body
          [] style = "parens" -> <<"(">> \o body \o <<")">>

DecimalValue(d, style) ==
    LET magnitude == Num(DigitsValue(d.int \o d.frac, 0), Len(d.frac))
    IN  IF style = "plain" THEN magnitude ELSE Neg(magnitude)

InitRoundTrip ==
    /\ tolerance = Int2Num(2)
    /\ validation_results = <<>>
    /\ pc = "call"
    /\ \E d \in Decimals, style \in Styles :
           args = [d |-> d, style |-> style, value_str |-> Format(d, style)]
    /\ result = NoneVal

SpecRoundTrip == InitRoundTrip /\ [][NextParse]_vars

(***************************************************************************)
(* C8.  Extractor round trip: extract(format(d)) = d at both sites.        *)
(***************************************************************************)
C8_RoundTrip ==
    pc \in {"DataValidator._parse_number", "FinancialReconciliation._parse_number"}
        => result = DecimalValue(args.d, args.style)

\* "(1,234.50)" has been parsed to -1234.5 by DataValidator._parse_number
C8_Witness ==
    /\ pc = "DataValidator._parse_number"
    /\ args.value_str = <<"(", "1", ",", "2", "3", "4", ".", "5", "0", ")">>
    /\ result = Num(0 - 12345, 1)

(***************************************************************************)
(* The severity classifier.                                                *)
(***************************************************************************)
HighRate == Num(1, 2)          \* 0.01
MediumRate == Num(1, 3)        \* 0.001
HighAmount == 1000
MediumAmount == 100

\* abs(diff / base_value) > rate, for base_value # 0
RateAbove(diff, base_value, rate) == Gt(Abs(diff), Mul(rate, Abs(base_value)))

\* a slip that treats the High amount threshold as inclusive
DataValidator_assess_severity_Inclusive(diff, base_value) ==
    IF IsZero(base_value)
    THEN IF Gt(diff, Int2Num(MediumAmount)) THEN "High" ELSE "Medium"
    ELSE IF RateAbove(diff, base_value, HighRate) \/ ~Gt(Int2Num(HighAmount), diff)
    THEN "High"
    ELSE IF RateAbove(diff, base_value, MediumRate) \/ Gt(diff, Int2Num(MediumAmount))
    THEN "Medium"
    ELSE "Low"

\* a slip that swaps the two outcomes of the zero-base branch
DataValidator_assess_severity_ZeroBaseSwapped(diff, base_value) ==
    IF IsZero(base_value)
    THEN IF Gt(diff, Int2Num(MediumAmount)) THEN "Medium" ELSE "High"
    ELSE IF RateAbove(diff, base_value, HighRate) \/ Gt(diff, Int2Num(HighAmount))
    THEN "High"
    ELSE IF RateAbove(diff, base_value, MediumRate) \/ Gt(diff, Int2Num(MediumAmount))
    THEN "Medium"
    ELSE "Low"

DataValidator_assess_severity(diff, base_value) ==
    IF IsZero(base_value)
    THEN IF Gt(diff, Int2Num(MediumAmount)) THEN "High" ELSE "Medium"
    ELSE IF RateAbove(diff, base_value, HighRate) \/ Gt(diff, Int2Num(HighAmount))
    THEN "High"
    ELSE IF RateAbove(diff, base_value, MediumRate) \/ Gt(diff, Int2Num(MediumAmount))
    THEN "Medium"
    ELSE "Low"

(***************************************************************************)
(* SpecSeverity: a difference (an absolute value, as every caller passes)  *)
(* and a base value handed to the classifier.                              *)
(***************************************************************************)
BaseValues ==
    { 0, 1, 0 - 1, 50, 100, 9999, 10000, 10001, 99999, 100000, 100001,
      1000000, 0 - 10000, 0 - 100000, 0 - 1000000 }

InitSeverity ==
    /\ tolerance = Int2Num(2)
    /\ validation_results = <<>>
    /\ pc = "call"
    /\ \E d \in 0..MaxDiff, b \in BaseValues :
           args = [diff |-> Int2Num(d), base_value |-> Int2Num(b)]
    /\ result = NoneVal

Call_assess_severity ==
    /\ pc = "call"
    /\ "base_value" \in DOMAIN args
    /\ result' = DataValidator_assess_severity(args.diff, args.base_value)
    /\ pc' = "DataValidator._assess_severity"
    /\ UNCHANGED <<tolerance, validation_results, args>>

NextSeverity == Call_assess_severity

SpecSeverity == InitSeverity /\ [][NextSeverity]_vars

(***************************************************************************)
(* C7.  The classifier's table: High when |diff/base| > 0.01 or            *)
(* diff > 1000, else Medium when |diff/base| > 0.001 or diff > 100, else   *)
(* Low; with base 0, High when diff > 100 and Medium otherwise.  The rates *)
(* are compared cross-multiplied, in integers.                             *)
(***************************************************************************)
AbsInt(i) == IF i < 0 THEN 0 - i ELSE i

\* C7: _assess_severity returns High, Medium or Low by the table above, and with
\* base_value 0 High when the difference is above 100 and Medium otherwise
C7_SeverityTable ==
    pc = "DataValidator._assess_severity" =>
        LET d == args.diff.n
            b == args.base_value.n
            high == 100 * AbsInt(d) > AbsInt(b) \/ d > 1000
            medium == 1000 * AbsInt(d) > AbsInt(b) \/ d > 100
        IN  IF b = 0
            THEN result = (IF d > 100 THEN "High" ELSE "Medium")
            ELSE /\ high => result = "High"
                 /\ ~high /\ medium => result = "Medium"
                 /\ ~high /\ ~medium => result = "Low"

\* base 0 and a difference of exactly 100: Medium, not High and not Low
C7_Witness ==
    /\ pc = "DataValidator._assess_severity"
    /\ args.base_value.n = 0
    /\ args.diff.n = 100
    /\ result = "Medium"

(***************************************************************************)
(* C13.  Severity ordering: with the base value fixed, a greater           *)
(* difference is never classified lower.                                   *)
(***************************************************************************)
\* Low < Medium < High
SeverityRank(severity) ==
    CASE severity = "Low" -> 0
      [] severity = "Medium" -> 1
      [] severity = "High" -> 2

\* the difference is above a threshold that makes it High for this base value
AboveHighThreshold(d, b) ==
    IF b = 0 THEN d > MediumAmount
    ELSE d > HighAmount \/ 100 * d > AbsInt(b)

\* C13: for the base value of the call, the next smaller difference gets a
\* severity no higher than the call's result (the calls cover every difference
\* 0..MaxDiff for every base value, so the severities rise along the whole
\* range), and a difference above a High threshold is classified High
C13_SeverityOrdering ==
    pc = "DataValidator._assess_severity" =>
        /\ \A d1 \in {args.diff.n - 1} \cap Nat :
               SeverityRank(DataValidator_assess_severity(Int2Num(d1), args.base_value))
                   <= SeverityRank(result)
        /\ AboveHighThreshold(args.diff.n, args.base_value.n) => result = "High"

\* base -10000: a difference of 101 is High, one of 100 Medium and one of 10 Low
C13_Witness ==
    /\ pc = "DataValidator._assess_severity"
    /\ args.base_value.n = 0 - 10000
    /\ args.diff.n = 101
    /\ result = "High"
    /\ DataValidator_assess_severity(Int2Num(100), args.base_value) = "Medium"
    /\ DataValidator_assess_severity(Int2Num(10), args.base_value) = "Low"

(***************************************************************************)
(* Row labels and the static rule tables of ReconciliationRules.  A label  *)
(* is the sequence of its characters.                                      *)
(***************************************************************************)
EmptyLabel == <<>>          \* ''
BlankLabel == <<" ">>       \* ' '
ZiChanZongJi == <<"zi", "chan", "zong", "ji4">>   \* 资产总计
ZiChanHeJi == <<"zi", "chan", "he", "ji4">>   \* 资产合计
ZiChanZongE == <<"zi", "chan", "zong", "e">>   \* 资产总额
ZongZiChan == <<"zong", "zi", "chan">>   \* 总资产
FuZhaiZongJi == <<"fu", "zhai", "zong", "ji4">>   \* 负债总计
FuZhaiHeJi == <<"fu", "zhai", "he", "ji4">>   \* 负债合计
FuZhaiZongE == <<"fu", "zhai", "zong", "e">>   \* 负债总额
ZongFuZhai == <<"zong", "fu", "zhai">>   \* 总负债
JingZiChan == <<"jing", "zi", "chan">>   \* 净资产
SuoYouZheQuanYi == <<"suo", "you", "zhe", "quan2", "yi">>   \* 所有者权益
JiJinJingZiChan == <<"ji", "jin", "jing", "zi", "chan">>   \* 基金净资产
JingZiChanHeJi == <<"jing", "zi", "chan", "he", "ji4">>   \* 净资产合计
LiuDongZiChan == <<"liu", "dong", "zi", "chan">>   \* 流动资产
LiuDongZiChanHeJi == <<"liu", "dong", "zi", "chan", "he", "ji4">>   \* 流动资产合计
LiuDongZiChanZongJi == <<"liu", "dong", "zi", "chan", "zong", "ji4">>   \* 流动资产总计
FeiLiuDongZiChan == <<"fei1", "liu", "dong", "zi", "chan">>   \* 非流动资产
FeiLiuDongZiChanHeJi == <<"fei1", "liu", "dong", "zi", "chan", "he", "ji4">>   \* 非流动资产合计
FeiLiuDongZiChanZongJi == <<"fei1", "liu", "dong", "zi", "chan", "zong", "ji4">>   \* 非流动资产总计
HuoBiZiJin == <<"huo", "bi", "zi", "jin">>   \* 货币资金
YinHangCunKuan == <<"yin", "hang", "cun", "kuan">>   \* 银行存款
XianJin == <<"xian", "jin">>   \* 现金
HuoBiZiJinHeJi == <<"huo", "bi", "zi", "jin", "he", "ji4">>   \* 货币资金合计
JiaoYiXingJinRongZiChan == <<"jiao", "yi5", "xing", "jin", "rong", "zi", "chan">>   \* 交易性金融资产
\* 以公允价值计量且其变动计入当期损益的金融资产
YiGongYunJiaZhiJiLiangQieQiBianDongJiRuDangQiSunYiDeJinRongZiChan ==
    <<"yi3", "gong", "yun", "jia", "zhi", "ji4", "liang", "qie", "qi2", "bian", "dong", "ji4", "ru", "dang", "qi", "sun", "yi", "de5", "jin", "rong", "zi", "chan">>
\* 交易性金融资产合计
JiaoYiXingJinRongZiChanHeJi ==
    <<"jiao", "yi5", "xing", "jin", "rong", "zi", "chan", "he", "ji4">>
YingShouKuanXiang == <<"ying", "shou", "kuan", "xiang">>   \* 应收款项
YingShouZhangKuan == <<"ying", "shou", "zhang", "kuan">>   \* 应收账款
YingShouPiaoJu == <<"ying", "shou", "piao", "ju">>   \* 应收票据
YingShouKuanXiangHeJi == <<"ying", "shou", "kuan", "xiang", "he", "ji4">>   \* 应收款项合计
LiuDongFuZhai == <<"liu", "dong", "fu", "zhai">>   \* 流动负债
LiuDongFuZhaiHeJi == <<"liu", "dong", "fu", "zhai", "he", "ji4">>   \* 流动负债合计
LiuDongFuZhaiZongJi == <<"liu", "dong", "fu", "zhai", "zong", "ji4">>   \* 流动负债总计
YingFuKuanXiang == <<"ying", "fu4", "kuan", "xiang">>   \* 应付款项
YingFuZhangKuan == <<"ying", "fu4", "zhang", "kuan">>   \* 应付账款
YingFuPiaoJu == <<"ying", "fu4", "piao", "ju">>   \* 应付票据
YingFuKuanXiangHeJi == <<"ying", "fu4", "kuan", "xiang", "he", "ji4">>   \* 应付款项合计
YingYeShouRu == <<"ying2", "ye", "shou", "ru">>   \* 营业收入
ShouRuHeJi == <<"shou", "ru", "he", "ji4">>   \* 收入合计
YingYeShouRuHeJi == <<"ying2", "ye", "shou", "ru", "he", "ji4">>   \* 营业收入合计
ZongShouRu == <<"zong", "shou", "ru">>   \* 总收入
YingYeChengBen == <<"ying2", "ye", "cheng", "ben">>   \* 营业成本
ChengBenHeJi == <<"cheng", "ben", "he", "ji4">>   \* 成本合计
YingYeChengBenHeJi == <<"ying2", "ye", "cheng", "ben", "he", "ji4">>   \* 营业成本合计
ZongChengBen == <<"zong", "cheng", "ben">>   \* 总成本
JingLiRun == <<"jing", "li", "run">>   \* 净利润
BenQiLiRun == <<"ben", "qi", "li", "run">>   \* 本期利润
JingLiRunHeJi == <<"jing", "li", "run", "he", "ji4">>   \* 净利润合计
LiRunZongE == <<"li", "run", "zong", "e">>   \* 利润总额
TouZiShouYi == <<"tou", "zi", "shou", "yi">>   \* 投资收益
TouZiShouYiHeJi == <<"tou", "zi", "shou", "yi", "he", "ji4">>   \* 投资收益合计
TouZiShouYiZongE == <<"tou", "zi", "shou", "yi", "zong", "e">>   \* 投资收益总额
GongYunJiaZhiBianDongShouYi == <<"gong", "yun", "jia", "zhi", "bian", "dong", "shou", "yi">>   \* 公允价值变动收益
GongYunJiaZhiBianDongSunYi == <<"gong", "yun", "jia", "zhi", "bian", "dong", "sun", "yi">>   \* 公允价值变动损益
\* 公允价值变动收益合计
GongYunJiaZhiBianDongShouYiHeJi ==
    <<"gong", "yun", "jia", "zhi", "bian", "dong", "shou", "yi", "he", "ji4">>
JiJinFenEZongE == <<"ji", "jin", "fen4", "e", "zong", "e">>   \* 基金份额总额
JiJinFenEJingZhi == <<"ji", "jin", "fen4", "e", "jing", "zhi">>   \* 基金份额净值

BALANCE_SHEET_RULES ==
    (ZiChanZongJi :> <<ZiChanHeJi, ZiChanZongE, ZongZiChan>>) @@
    (FuZhaiZongJi :> <<FuZhaiHeJi, FuZhaiZongE, ZongFuZhai>>) @@
    (JingZiChan :> <<SuoYouZheQuanYi, JiJinJingZiChan, JingZiChanHeJi>>) @@
    (LiuDongZiChan :> <<LiuDongZiChanHeJi, LiuDongZiChanZongJi>>) @@
    (FeiLiuDongZiChan :> <<FeiLiuDongZiChanHeJi, FeiLiuDongZiChanZongJi>>) @@
    (HuoBiZiJin :> <<YinHangCunKuan, XianJin, HuoBiZiJinHeJi>>) @@
    (JiaoYiXingJinRongZiChan :> <<YiGongYunJiaZhiJiLiangQieQiBianDongJiRuDangQiSunYiDeJinRongZiChan, JiaoYiXingJinRongZiChanHeJi>>) @@
    (YingShouKuanXiang :> <<YingShouZhangKuan, YingShouPiaoJu, YingShouKuanXiangHeJi>>) @@
    (LiuDongFuZhai :> <<LiuDongFuZhaiHeJi, LiuDongFuZhaiZongJi>>) @@
    (YingFuKuanXiang :> <<YingFuZhangKuan, YingFuPiaoJu, YingFuKuanXiangHeJi>>)

INCOME_STATEMENT_RULES ==
    (YingYeShouRu :> <<ShouRuHeJi, YingYeShouRuHeJi, ZongShouRu>>) @@
    (YingYeChengBen :> <<ChengBenHeJi, YingYeChengBenHeJi, ZongChengBen>>) @@
    (JingLiRun :> <<BenQiLiRun, JingLiRunHeJi, LiRunZongE>>) @@
    (TouZiShouYi :> <<TouZiShouYiHeJi, TouZiShouYiZongE>>) @@
    (GongYunJiaZhiBianDongShouYi :> <<GongYunJiaZhiBianDongSunYi, GongYunJiaZhiBianDongShouYiHeJi>>)

CROSS_YEAR_ITEMS ==
    <<ZiChanZongJi, FuZhaiZongJi, JingZiChan, YingYeShouRu, YingYeChengBen, JingLiRun, JiJinFenEZongE, JiJinFenEJingZhi>>

CunChuBaoZhengJin == <<"cun", "chu", "bao", "zheng", "jin">>   \* 存出保证金
QiTa == <<"qi2", "ta">>   \* 其他
ZiChan == <<"zi", "chan">>   \* 资产
JiJinJingZhiHeJi == <<"ji", "jin", "jing", "zhi", "he", "ji4">>   \* 基金净值合计
XianJinJiYinHangCunKuan == <<"xian", "jin", "ji2", "yin", "hang", "cun", "kuan">>   \* 现金及银行存款
HeJi == <<"he", "ji4">>   \* 合计
ZongJi == <<"zong", "ji4">>   \* 总计
ZongE == <<"zong", "e">>   \* 总额
XiaoJi == <<"xiao", "ji4">>   \* 小计
ShangNian == <<"shang", "nian">>   \* 上年
ShangQi == <<"shang", "qi">>   \* 上期
BenQi == <<"ben", "qi">>   \* 本期
QiMo == <<"qi", "mo">>   \* 期末
BenNian == <<"ben", "nian">>   \* 本年
ZiChanFuZhaiBiao == <<"zi", "chan", "fu", "zhai", "biao">>   \* 资产负债表
LiRunBiao == <<"li", "run", "biao">>   \* 利润表
FuZhu == <<"fu5", "zhu4">>   \* 附注
XiangMu == <<"xiang", "mu">>   \* 项目
JinE == <<"jin", "e">>   \* 金额
ShangNianMo == <<"shang", "nian", "mo">>   \* 上年末
BenQiMo == <<"ben", "qi", "mo">>   \* 本期末
YinHangSpCunKuan == <<"yin", "hang", " ", "cun", "kuan">>   \* 银行 存款

\* dict.get(key, [])
Get(table, key) == IF key \in DOMAIN table THEN table[key] ELSE <<>>

\* the inner loop of find_matching_items: some synonym contains or is contained
RECURSIVE AnySynonymMatches(_, _)
AnySynonymMatches(synonyms, note_item) ==
    IF synonyms = <<>> THEN FALSE
    ELSE IF Contains(note_item, Head(synonyms)) \/ Contains(Head(synonyms), note_item) THEN TRUE
    ELSE AnySynonymMatches(Tail(synonyms), note_item)

RECURSIVE MatchLoop(_, _)
MatchLoop(synonyms, note_items) ==
    IF note_items = <<>> THEN <<>>
    ELSE (IF AnySynonymMatches(synonyms, Head(note_items)) THEN <<Head(note_items)>> ELSE <<>>)
         \o MatchLoop(synonyms, Tail(note_items))

Synonyms(main_item) ==
    LET balance == Get(BALANCE_SHEET_RULES, main_item)
        either == IF balance = <<>> THEN Get(INCOME_STATEMENT_RULES, main_item) ELSE balance
    IN  IF either = <<>> THEN <<main_item>> ELSE either

\* a slip that tests one direction of containment only (synonym in note_item)
find_matching_items_OneWay(main_item, note_items) ==
    SelectSeq(note_items,
              LAMBDA l : \E i \in 1..Len(Synonyms(main_item)) : Contains(l, Synonyms(main_item)[i]))

find_matching_items(main_item, note_items) == MatchLoop(Synonyms(main_item), note_items)

(***************************************************************************)
(* SpecMatch: an item name and a list of candidate labels handed to the    *)
(* Synonym Resolver.                                                       *)
(***************************************************************************)
RegisteredItems == DOMAIN BALANCE_SHEET_RULES \cup DOMAIN INCOME_STATEMENT_RULES

MatchItems == RegisteredItems \cup {CunChuBaoZhengJin, XianJin, ZiChan, EmptyLabel}

CandidateLabels ==
    { YinHangCunKuan, XianJin, XianJinJiYinHangCunKuan, ZiChanHeJi, ZiChan, JingZiChanHeJi,
      LiuDongZiChanHeJi, CunChuBaoZhengJin, EmptyLabel, QiTa, ZiChanZongJi, JiJinJingZhiHeJi }

InitMatch ==
    /\ tolerance = Int2Num(2)
    /\ validation_results = <<>>
    /\ pc = "call"
    /\ \E item \in MatchItems :
       \E labels \in UNION {[1..n -> CandidateLabels] : n \in 0..MaxNoteItems} :
           args = [main_item |-> item, note_items |-> labels]
    /\ result = NoneVal

Call_find_matching_items ==
    /\ pc = "call"
    /\ "note_items" \in DOMAIN args
    /\ result' = find_matching_items(args.main_item, args.note_items)
    /\ pc' = "ReconciliationRules.find_matching_items"
    /\ UNCHANGED <<tolerance, validation_results, args>>

NextMatch == Call_find_matching_items

SpecMatch == InitMatch /\ [][NextMatch]_vars

(***************************************************************************)
(* C4.  find_matching_items returns the subsequence of the labels that     *)
(* contain an alias or are contained in one; the aliases are the           *)
(* registered synonym list of a registered item and the item itself        *)
(* otherwise.                                                              *)
(***************************************************************************)
Range(s) == {s[i] : i \in 1..Len(s)}

Aliases(item) ==
    IF item \in DOMAIN BALANCE_SHEET_RULES THEN Range(BALANCE_SHEET_RULES[item])
    ELSE IF item \in DOMAIN INCOME_STATEMENT_RULES THEN Range(INCOME_STATEMENT_RULES[item])
    ELSE {item}

AliasMatches(item, label) ==
    \E a \in Aliases(item) : Contains(label, a) \/ Contains(a, label)

\* C4: find_matching_items returns, in order, exactly the candidate labels that
\* contain an alias of the item or are contained in one; the aliases are the
\* registered synonym list, or the item itself when it is not registered
C4_MatchesAreContainments ==
    pc = "ReconciliationRules.find_matching_items" =>
        LET Matched(l) == AliasMatches(args.main_item, l)
        IN  result = SelectSeq(args.note_items, Matched)

\* a label contained in an alias (资产 in 资产合计) and a label containing one
\* (流动资产合计) were both returned, in order, for the registered item 资产总计
C4_Witness ==
    /\ pc = "ReconciliationRules.find_matching_items"
    /\ args.main_item = ZiChanZongJi
    /\ args.note_items = <<ZiChan, QiTa, LiuDongZiChanHeJi>>
    /\ result = <<ZiChan, LiuDongZiChanHeJi>>

(***************************************************************************)
(* C14.  The worked example of the resolver: 净资产 against 基金净值合计.   *)
(***************************************************************************)
\* C14: find_matching_items('净资产', ['基金净值合计', '其他']) returns
\* ['基金净值合计'] and find_matching_items('净资产', ['其他']) returns []
C14_NetAssetExample ==
    (pc = "ReconciliationRules.find_matching_items" /\ args.main_item = JingZiChan)
        => /\ args.note_items = <<JiJinJingZhiHeJi, QiTa>> => result = <<JiJinJingZhiHeJi>>
           /\ args.note_items = <<QiTa>> => result = <<>>

(***************************************************************************)
(* Tables.  A DataFrame is [columns, rows]: its column labels and its rows,*)
(* each row the sequence of its cells as str() renders them; cell 1 is the *)
(* row label.  NoneTable is None.                                          *)
(***************************************************************************)
NoneTable == [columns |-> <<>>, rows |-> <<>>, isNone |-> TRUE]
Table(columns, rows) == [columns |-> columns, rows |-> rows, isNone |-> FALSE]

\* table is None or table.empty
NoneOrEmpty(table) == table.isNone \/ table.rows = <<>> \/ table.columns = <<>>

\* str(row.iloc[0]) if len(row) > 0 else ''
FirstCol(row) == IF Len(row) > 0 THEN row[1] ELSE <<>>

Min(a, b) == IF a <= b THEN a ELSE b

\* for col_idx in range(1, min(len(row), 4)): the first cell that parses
RECURSIVE FirstParsableCell(_, _)
FirstParsableCell(row, col_idx) ==
    IF col_idx >= Min(Len(row), 4) THEN NoneVal
    ELSE LET value == DataValidator_parse_number(row[col_idx + 1])
         IN  IF value # NoneVal THEN value ELSE FirstParsableCell(row, col_idx + 1)

RECURSIVE ExtractLoop(_, _)
ExtractLoop(rows, item_name) ==
    IF rows = <<>> THEN NoneVal
    ELSE LET value == IF Contains(FirstCol(Head(rows)), item_name)
                      THEN FirstParsableCell(Head(rows), 1) ELSE NoneVal
         IN  IF value # NoneVal THEN value ELSE ExtractLoop(Tail(rows), item_name)

DataValidator_extract_value(table, item_name) ==
    IF NoneOrEmpty(table) THEN NoneVal ELSE ExtractLoop(table.rows, item_name)

\* any(keyword in col_str for keyword in column_keywords)
AnyKeywordIn(col_str, column_keywords) ==
    \E i \in 1..Len(column_keywords) : Contains(col_str, column_keywords[i])

\* the position of the first column whose label holds a keyword, 0 for target_col = None
RECURSIVE TargetCol(_, _, _)
TargetCol(columns, column_keywords, pos) ==
    IF pos > Len(columns) THEN 0
    ELSE IF AnyKeywordIn(columns[pos], column_keywords) THEN pos
    ELSE TargetCol(columns, column_keywords, pos + 1)

RECURSIVE ColumnLoop(_, _, _)
ColumnLoop(rows, item_name, target_col) ==
    IF rows = <<>> THEN NoneVal
    ELSE IF Contains(FirstCol(Head(rows)), item_name)
    THEN DataValidator_parse_number(Head(rows)[target_col])
    ELSE ColumnLoop(Tail(rows), item_name, target_col)

AttributeError == [kind |-> "AttributeError", n |-> 0, k |-> 0]

\* an extractor without the guard on None: None has no attribute columns
DataValidator_extract_value_from_column_Unguarded(table, item_name, column_keywords) ==
    IF table.isNone THEN AttributeError
    ELSE LET target_col == TargetCol(table.columns, column_keywords, 1)
         IN  IF target_col = 0 THEN NoneVal
             ELSE ColumnLoop(table.rows, item_name, target_col)

DataValidator_extract_value_from_column(table, item_name, column_keywords) ==
    IF NoneOrEmpty(table) THEN NoneVal
    ELSE LET target_col == TargetCol(table.columns, column_keywords, 1)
         IN  IF target_col = 0 THEN NoneVal
             ELSE ColumnLoop(table.rows, item_name, target_col)

\* for item_name in item_names: the value of the row's cell for the first alias
\* the label contains, when it parses
RECURSIVE AliasLoop(_, _, _)
AliasLoop(row, item_names, col_index) ==
    IF item_names = <<>> THEN NoneVal
    ELSE LET value == IF Contains(row[1], Head(item_names))
                      THEN FinancialReconciliation_parse_number(
                               IF col_index < Len(row) THEN row[col_index + 1] ELSE <<>>)
                      ELSE NoneVal
         IN  IF value # NoneVal THEN value ELSE AliasLoop(row, Tail(item_names), col_index)

RECURSIVE FindLoop(_, _, _)
FindLoop(rows, item_names, col_index) ==
    IF rows = <<>> THEN NoneVal
    ELSE LET value == IF Len(Head(rows)) = 0 THEN NoneVal
                      ELSE AliasLoop(Head(rows), item_names, col_index)
         IN  IF value # NoneVal THEN value ELSE FindLoop(Tail(rows), item_names, col_index)

FinancialReconciliation_find_value_in_df(df, item_names, col_index) ==
    IF NoneOrEmpty(df) THEN NoneVal
    ELSE LET index == IF col_index < 0 THEN Len(df.columns) + col_index ELSE col_index
         IN  IF index >= Len(df.columns) THEN NoneVal
             ELSE FindLoop(df.rows, item_names, index)

(***************************************************************************)
(* SpecExtract: a three-column table and an item name handed to the three  *)
(* table extractors.  The column keywords, the alias list and the column   *)
(* index are chosen when the call is made, from the values the callers use.*)
(***************************************************************************)
ExtractColumns == <<XiangMu, BenQiMo, ShangNianMo>>   \* 项目, 本期末, 上年末

ExtractLabels == {ZiChanZongJi, JingZiChan, LiuDongZiChan}
ExtractCells == {<<<<"5">>, <<"7">>>>, <<<<"-">>, <<"7">>>>, <<<<"5">>, <<"-">>>>, <<<<"-">>, <<"-">>>>}
ExtractRows == {<<l>> \o c : l \in ExtractLabels, c \in ExtractCells}
ExtractItems == {ZiChan, ZiChanZongJi, JingZiChan, FuZhaiZongJi}

LastYearKeywords == <<ShangNian, ShangQi>>          \* ['上年', '上期']
CurrentYearKeywords == <<BenQi, QiMo, BenNian>>     \* ['本期', '期末', '本年']
UnusedKeywords == <<JinE>>                          \* a keyword no column label holds

InitExtract ==
    /\ tolerance = Int2Num(2)
    /\ validation_results = <<>>
    /\ pc = "call"
    /\ \E rows \in UNION {[1..n -> ExtractRows] : n \in 0..MaxExtractRows} :
       \E item \in ExtractItems :
           args = [table |-> Table(ExtractColumns, rows), item_name |-> item,
                   column_keywords |-> <<>>, item_names |-> <<>>, col_index |-> 0]
    /\ result = NoneVal

Call_extract_value ==
    /\ pc = "call"
    /\ "col_index" \in DOMAIN args
    /\ result' = DataValidator_extract_value(args.table, args.item_name)
    /\ pc' = "DataValidator._extract_value"
    /\ UNCHANGED <<tolerance, validation_results, args>>

Call_extract_value_from_column ==
    /\ pc = "call"
    /\ "col_index" \in DOMAIN args
    /\ \E kw \in {LastYearKeywords, CurrentYearKeywords, UnusedKeywords} :
           /\ args' = [args EXCEPT !.column_keywords = kw]
           /\ result' = DataValidator_extract_value_from_column(args.table, args.item_name, kw)
    /\ pc' = "DataValidator._extract_value_from_column"
    /\ UNCHANGED <<tolerance, validation_results>>

Call_find_value_in_df ==
    /\ pc = "call"
    /\ "col_index" \in DOMAIN args
    /\ \E names \in {<<args.item_name>>, <<FuZhaiHeJi, args.item_name>>} :
       \E c \in {1, 2, 3, 0 - 1} :
           /\ args' = [args EXCEPT !.item_names = names, !.col_index = c]
           /\ result' = FinancialReconciliation_find_value_in_df(args.table, names, c)
    /\ pc' = "FinancialReconciliation._find_value_in_df"
    /\ UNCHANGED <<tolerance, validation_results>>

NextExtract ==
    \/ Call_extract_value
    \/ Call_extract_value_from_column
    \/ Call_find_value_in_df

SpecExtract == InitExtract /\ [][NextExtract]_vars

(***************************************************************************)
(* C9.  Which row decides a table extraction.                              *)
(***************************************************************************)
MinOf(S) == CHOOSE i \in S : \A j \in S : i <= j

\* the rows whose label contains one of the names
MatchingRows(rows, names) ==
    {i \in 1..Len(rows) : \E n \in Range(names) : Contains(FirstCol(rows[i]), n)}

\* the value _extract_value reads from one row: its leftmost parsable cell among columns 1..3
ValueOfRow(row) ==
    LET parsable == {c \in 2..Min(Len(row), 4) : DataValidator_parse_number(row[c]) # NoneVal}
    IN  IF parsable = {} THEN NoneVal ELSE DataValidator_parse_number(row[MinOf(parsable)])

\* the value _extract_value_from_column reads from one row
KeywordCell(table, row, column_keywords) ==
    LET holding == {c \in 1..Len(table.columns) :
                       \E k \in Range(column_keywords) : Contains(table.columns[c], k)}
    IN  IF holding = {} THEN NoneVal ELSE DataValidator_parse_number(row[MinOf(holding)])

\* the value _find_value_in_df reads from one row
IndexedCell(table, row, col_index) ==
    LET index == IF col_index < 0 THEN Len(table.columns) + col_index ELSE col_index
    IN  IF index >= Len(table.columns) THEN NoneVal
        ELSE FinancialReconciliation_parse_number(row[index + 1])

\* the value read from row i by the extractor that ran
SelectedValue(i) ==
    LET row == args.table.rows[i]
    IN  CASE pc = "DataValidator._extract_value" -> ValueOfRow(row)
          [] pc = "DataValidator._extract_value_from_column" ->
                 KeywordCell(args.table, row, args.column_keywords)
          [] pc = "FinancialReconciliation._find_value_in_df" ->
                 IndexedCell(args.table, row, args.col_index)

ExtractorNames ==
    { "DataValidator._extract_value", "DataValidator._extract_value_from_column",
      "FinancialReconciliation._find_value_in_df" }

ItemNamesUsed ==
    IF pc = "FinancialReconciliation._find_value_in_df" THEN args.item_names
    ELSE <<args.item_name>>

\* C9 as claimed: at all three extractors the first matching row decides, and an
\* unparsable cell there gives null
C9_FirstMatchWins ==
    pc \in ExtractorNames =>
        LET hits == MatchingRows(args.table.rows, ItemNamesUsed)
        IN  result = IF hits = {} THEN NoneVal ELSE SelectedValue(MinOf(hits))

(***************************************************************************)
(* DataValidator._reconcile_tables: every row label of the main table is   *)
(* resolved against the row labels of the note table, and the values of    *)
(* each matched pair are compared.                                         *)
(***************************************************************************)
GouJiChaYi == <<"gou", "ji1", "cha", "yi4">>   \* 勾稽差异

\* table.iloc[:, 0].astype(str).tolist()
FirstColumn(table) == [i \in 1..Len(table.rows) |-> table.rows[i][1]]

RECURSIVE GCD(_, _)
GCD(a, b) == IF b = 0 THEN a ELSE GCD(b, a % b)

\* the quotient p / q, q > 0, in lowest terms
Fraction(p, q) ==
    LET g == GCD(IF p < 0 THEN 0 - p ELSE p, q)
    IN  [num |-> p \div g, den |-> q \div g]

\* a slip that leaves the rate a plain ratio instead of a percentage
DifferenceRate_Ratio(diff, base) ==
    IF IsZero(base) THEN Fraction(0, 1)
    ELSE LET k == Max(diff.k, base.k)
             q == Scaled(base, k)
         IN  IF q < 0 THEN Fraction(0 - Scaled(diff, k), 0 - q)
             ELSE Fraction(Scaled(diff, k), q)

\* (diff / base * 100) if base != 0 else 0
DifferenceRate(diff, base) ==
    IF IsZero(base) THEN Fraction(0, 1)
    ELSE LET k == Max(diff.k, base.k)
             q == Scaled(base, k)
         IN  IF q < 0 THEN Fraction(0 - 100 * Scaled(diff, k), 0 - q)
             ELSE Fraction(100 * Scaled(diff, k), q)

\* a slip that reports a difference equal to the tolerance
ExceedsTolerance_Inclusive(diff) == ~Gt(tolerance, diff)

\* a slip that reports the differences below the tolerance
ExceedsTolerance_Below(diff) == Gt(tolerance, diff)

\* diff > self.tolerance
ExceedsTolerance(diff) == Gt(diff, tolerance)

RECURSIVE ReconcileNoteLoop(_, _, _, _, _, _)
ReconcileNoteLoop(matching_note_items, note_table, main_name, note_name, main_item, main_value) ==
    IF matching_note_items = <<>> THEN <<>>
    ELSE LET note_item == Head(matching_note_items)
             note_value == DataValidator_extract_value(note_table, note_item)
             rest == ReconcileNoteLoop(Tail(matching_note_items), note_table,
                                       main_name, note_name, main_item, main_value)
         IN  IF main_value # NoneVal /\ note_value # NoneVal
                /\ ExceedsTolerance(Abs(Sub(main_value, note_value)))
             THEN LET diff == Abs(Sub(main_value, note_value))
                  IN  << [type |-> GouJiChaYi,
                          main_table |-> main_name,
                          note_table |-> note_name,
                          main_item |-> main_item,
                          note_item |-> note_item,
                          main_value |-> main_value,
                          note_value |-> note_value,
                          difference |-> diff,
                          difference_rate |-> DifferenceRate(diff, main_value),
                          severity |-> DataValidator_assess_severity(diff, main_value)] >>
                      \o rest
             ELSE rest

RECURSIVE ReconcileMainLoop(_, _, _, _, _, _)
ReconcileMainLoop(main_items, note_items, main_table, note_table, main_name, note_name) ==
    IF main_items = <<>> THEN <<>>
    ELSE LET main_item == Head(main_items)
             rest == ReconcileMainLoop(Tail(main_items), note_items, main_table,
                                       note_table, main_name, note_name)
         IN  IF main_item = <<>> \/ Strip(main_item) = <<>> THEN rest
             ELSE LET matching_note_items == find_matching_items(main_item, note_items)
                  IN  IF matching_note_items = <<>> THEN rest
                      ELSE ReconcileNoteLoop(matching_note_items, note_table, main_name,
                               note_name, main_item,
                               DataValidator_extract_value(main_table, main_item))
                           \o rest

DataValidator_reconcile_tables(main_table, note_table, main_name, note_name) ==
    IF NoneOrEmpty(main_table) THEN <<>>
    ELSE ReconcileMainLoop(FirstColumn(main_table),
                           IF ~NoneOrEmpty(note_table) THEN FirstColumn(note_table) ELSE <<>>,
                           main_table, note_table, main_name, note_name)

(***************************************************************************)
(* SpecReconcile: a main table of one or two rows and a note table of up   *)
(* to MaxNoteRows rows (or None) handed to _reconcile_tables, under a      *)
(* tolerance of 0 or 2.  The labels include a registered item, an          *)
(* unregistered one, the empty label and a label of one space; the note    *)
(* labels include one with an inner space.                                 *)
(***************************************************************************)
ReconcileColumns == <<XiangMu, JinE>>   \* 项目, 金额

MainRows ==
    { <<HuoBiZiJin, <<"5">>>>, <<HuoBiZiJin, <<"-">>>>,
      <<CunChuBaoZhengJin, <<"5">>>>, <<CunChuBaoZhengJin, <<"0">>>>,
      <<EmptyLabel, <<"5">>>>, <<BlankLabel, <<"5">>>>, <<BlankLabel, <<"-">>>> }

MainTables ==
    {NoneTable}
      \cup {Table(ReconcileColumns, <<r>>) : r \in MainRows}
      \cup {Table(ReconcileColumns, <<r, q>>) : r \in MainRows, q \in MainRows}

NoteLabels == {YinHangCunKuan, YinHangSpCunKuan, CunChuBaoZhengJin}
NoteRows == {<<l, c>> : l \in NoteLabels, c \in {<<"5">>, <<"7">>, <<"-">>}}

NoteTables ==
    {NoneTable}
      \cup {Table(ReconcileColumns, rows) :
              rows \in UNION {[1..n -> NoteRows] : n \in 0..MaxNoteRows}}

InitReconcile ==
    /\ tolerance \in {Int2Num(0), Int2Num(2)}
    /\ validation_results = <<>>
    /\ pc = "call"
    /\ \E main \in MainTables, note \in NoteTables :
           args = [main_table |-> main, note_table |-> note,
                   main_name |-> ZiChanFuZhaiBiao, note_name |-> FuZhu]
    /\ result = NoneVal

Call_reconcile_tables ==
    /\ pc = "call"
    /\ "main_name" \in DOMAIN args
    /\ result' = DataValidator_reconcile_tables(args.main_table, args.note_table,
                                                args.main_name, args.note_name)
    /\ pc' = "DataValidator._reconcile_tables"
    /\ UNCHANGED <<tolerance, validation_results, args>>

NextReconcile == Call_reconcile_tables

SpecReconcile == InitReconcile /\ [][NextReconcile]_vars

(***************************************************************************)
(* C1.  One discrepancy per matched pair whose values differ by more than  *)
(* the tolerance.  A pair is a row of the main table and a row of the note *)
(* table whose label the resolver matches to the main row's label; its     *)
(* values are the values the Value Extractor finds for the two labels.     *)
(***************************************************************************)
\* the value the extractor finds for a label: that of the first row whose label
\* contains it and that has a parsable cell
ExtractedValue(table, item_name) ==
    LET hits == {i \in MatchingRows(table.rows, <<item_name>>) :
                    ValueOfRow(table.rows[i]) # NoneVal}
    IN  IF hits = {} THEN NoneVal ELSE ValueOfRow(table.rows[MinOf(hits)])

\* row i of the main table and row j of the note table are matched and their
\* values both exist and differ by more than the tolerance
PairDiffers(i, j) ==
    LET main_item == args.main_table.rows[i][1]
        note_item == args.note_table.rows[j][1]
        main_value == ExtractedValue(args.main_table, main_item)
        note_value == ExtractedValue(args.note_table, note_item)
    IN  /\ AliasMatches(main_item, note_item)
        /\ main_value # NoneVal
        /\ note_value # NoneVal
        /\ LET k == Max(main_value.k, note_value.k)
           IN  AbsInt(Scaled(main_value, k) - Scaled(note_value, k)) > Scaled(tolerance, k)

\* the number of discrepancies reported for a pair of labels
Reported(main_item, note_item) ==
    Cardinality({n \in 1..Len(result) :
                    result[n].main_item = main_item /\ result[n].note_item = note_item})

LabelPairs ==
    {<<args.main_table.rows[i][1], args.note_table.rows[j][1]>> :
        i \in 1..Len(args.main_table.rows), j \in 1..Len(args.note_table.rows)}
      \cup {<<result[n].main_item, result[n].note_item>> : n \in 1..Len(result)}

\* C1 as claimed: every pair (main row, matched note row) whose values differ by
\* more than the tolerance is reported exactly once, and nothing else is reported
C1_OnePerDifferingPair ==
    pc = "DataValidator._reconcile_tables" =>
        \A p \in LabelPairs :
            Reported(p[1], p[2]) =
                Cardinality({ij \in (1..Len(args.main_table.rows))
                                      \X (1..Len(args.note_table.rows)) :
                                /\ args.main_table.rows[ij[1]][1] = p[1]
                                /\ args.note_table.rows[ij[2]][1] = p[2]
                                /\ PairDiffers(ij[1], ij[2])})

\* C1 as amended: the same, over the main rows whose label is neither empty nor
\* made of whitespace only; a reported difference is strictly above the tolerance
C1_OnePerDifferingPairOfNonBlankLabel ==
    pc = "DataValidator._reconcile_tables" =>
        /\ \A p \in LabelPairs :
               Reported(p[1], p[2]) =
                   Cardinality({ij \in (1..Len(args.main_table.rows))
                                         \X (1..Len(args.note_table.rows)) :
                                   /\ args.main_table.rows[ij[1]][1] = p[1]
                                   /\ args.note_table.rows[ij[2]][1] = p[2]
                                   /\ Strip(p[1]) # <<>>
                                   /\ PairDiffers(ij[1], ij[2])})
        /\ \A n \in 1..Len(result) : Gt(result[n].difference, tolerance)

\* under tolerance 2, 货币资金 5 against 银行存款 7 (a difference equal to the
\* tolerance) is not reported and 存出保证金 0 against 5 is
C1_Witness ==
    /\ pc = "DataValidator._reconcile_tables"
    /\ tolerance = Int2Num(2)
    /\ args.main_table.rows = << <<HuoBiZiJin, <<"5">>>>, <<CunChuBaoZhengJin, <<"0">>>> >>
    /\ args.note_table.rows = << <<YinHangCunKuan, <<"7">>>>, <<CunChuBaoZhengJin, <<"5">>>> >>
    /\ Len(result) = 1
    /\ result[1].main_item = CunChuBaoZhengJin
    /\ result[1].difference = Int2Num(5)

(***************************************************************************)
(* DataValidator.validate_summation: for every rule {total: [sub, ...]}    *)
(* the total's value is compared with the sum of the sub-items' values.    *)
(* summation_rules is the dict in insertion order: a sequence of           *)
(* [total_item, sub_items] with distinct total_item.                       *)
(***************************************************************************)
JiaZongCuoWu == <<"jia1", "zong", "cuo", "wu5">>   \* 加总错误

\* a slip that counts a sub-item that does not extract as 0
RECURSIVE SubValues_NoneAsZero(_, _)
SubValues_NoneAsZero(table, sub_items) ==
    IF sub_items = <<>> THEN <<>>
    ELSE LET value == DataValidator_extract_value(table, Head(sub_items))
         IN  <<IF value # NoneVal THEN value ELSE Int2Num(0)>>
                 \o SubValues_NoneAsZero(table, Tail(sub_items))

\* the values of the sub-items that extract, in the order of sub_items
RECURSIVE SubValues(_, _)
SubValues(table, sub_items) ==
    IF sub_items = <<>> THEN <<>>
    ELSE LET value == DataValidator_extract_value(table, Head(sub_items))
         IN  (IF value # NoneVal THEN <<value>> ELSE <<>>)
                 \o SubValues(table, Tail(sub_items))

\* a slip that overwrites the accumulator instead of adding to it
SumFrom_Overwrite(acc, values) ==
    IF values = <<>> THEN acc ELSE values[Len(values)]

\* sum(sub_values), accumulated from 0 left to right
RECURSIVE SumFrom(_, _)
SumFrom(acc, values) ==
    IF values = <<>> THEN acc ELSE SumFrom(Add(acc, Head(values)), Tail(values))

\* differences.append({...}) when the difference exceeds the tolerance
SummationDifference(total_item, sub_items, total_value, calculated_total, diff) ==
    IF ExceedsTolerance(diff)
    THEN << [type |-> JiaZongCuoWu,
             total_item |-> total_item,
             sub_items |-> sub_items,
             reported_total |-> total_value,
             calculated_total |-> calculated_total,
             difference |-> diff,
             difference_rate |-> DifferenceRate(diff, total_value),
             severity |-> DataValidator_assess_severity(diff, total_value)] >>
    ELSE <<>>

\* calculated_total = sum(sub_values); diff = abs(total_value - calculated_total)
CompareTotal(total_item, sub_items, total_value, calculated_total) ==
    SummationDifference(total_item, sub_items, total_value, calculated_total,
                        Abs(Sub(total_value, calculated_total)))

\* if total_value is not None and sub_values: the comparison of one rule
SummationRule(total_item, sub_items, total_value, sub_values) ==
    IF total_value # NoneVal /\ sub_values # <<>>
    THEN CompareTotal(total_item, sub_items, total_value, SumFrom(Int2Num(0), sub_values))
    ELSE <<>>

RECURSIVE SummationLoop(_, _)
SummationLoop(table, summation_rules) ==
    IF summation_rules = <<>> THEN <<>>
    ELSE SummationRule(Head(summation_rules).total_item,
                   Head(summation_rules).sub_items,
                   DataValidator_extract_value(table, Head(summation_rules).total_item),
                   SubValues(table, Head(summation_rules).sub_items))
            \o SummationLoop(table, Tail(summation_rules))

DataValidator_validate_summation(table, summation_rules) ==
    SummationLoop(table, summation_rules)

(***************************************************************************)
(* SpecSummation: a three-column table of up to MaxSumRows rows (or None)  *)
(* and a rule dict handed to validate_summation, under a tolerance of 0 or *)
(* 2.  One of the labels (非流动资产) contains another (流动资产); one rule   *)
(* names a sub-item no row carries.                                        *)
(***************************************************************************)
SumLabels == {ZiChanZongJi, LiuDongZiChan, FeiLiuDongZiChan}
SumCells ==
    { <<<<"1">>, <<"-">>>>, <<<<"2">>, <<"-">>>>, <<<<"3">>, <<"-">>>>,
      <<<<"-">>, <<"-">>>>, <<<<"-">>, <<"2">>>> }
SumRows == {<<l>> \o c : l \in SumLabels, c \in SumCells}

SumTables ==
    {NoneTable}
      \cup {Table(ExtractColumns, rows) :
              rows \in UNION {[1..n -> SumRows] : n \in 0..MaxSumRows}}

SumRuleDicts ==
    { << [total_item |-> ZiChanZongJi, sub_items |-> <<LiuDongZiChan, FeiLiuDongZiChan>>] >>,
      << [total_item |-> ZiChanZongJi, sub_items |-> <<LiuDongZiChan, HuoBiZiJin>>],
         [total_item |-> FeiLiuDongZiChan, sub_items |-> <<LiuDongZiChan>>] >> }

InitSummation ==
    /\ tolerance \in {Int2Num(0), Int2Num(2)}
    /\ validation_results = <<>>
    /\ pc = "call"
    /\ \E table \in SumTables, rules \in SumRuleDicts :
           args = [table |-> table, summation_rules |-> rules]
    /\ result = NoneVal

Call_validate_summation ==
    /\ pc = "call"
    /\ "summation_rules" \in DOMAIN args
    /\ result' = DataValidator_validate_summation(args.table, args.summation_rules)
    /\ pc' = "DataValidator.validate_summation"
    /\ UNCHANGED <<tolerance, validation_results, args>>

NextSummation == Call_validate_summation

SpecSummation == InitSummation /\ [][NextSummation]_vars

(***************************************************************************)
(* C3.  Summation closure for a rule {T: [A, B]}.                          *)
(***************************************************************************)
\* the call validate_summation(table, {T: [A, B]}) has returned
SingleRuleCall ==
    /\ pc = "DataValidator.validate_summation"
    /\ ~args.table.isNone
    /\ Len(args.summation_rules) = 1
    /\ Len(args.summation_rules[1].sub_items) = 2

RuleT == args.summation_rules[1].total_item
RuleA == args.summation_rules[1].sub_items[1]
RuleB == args.summation_rules[1].sub_items[2]

\* the rows labelled exactly item
RowsLabelled(item) == {i \in 1..Len(args.table.rows) : args.table.rows[i][1] = item}

\* no discrepancy when t = a + b; one discrepancy of difference |t - (a + b)| when
\* T's value is off by more than the tolerance
ClosureHolds(t, a, b) ==
    LET p == Sub(t, Add(a, b))
    IN  /\ IsZero(p) => result = <<>>
        /\ Gt(Abs(p), tolerance) =>
               /\ Len(result) = 1
               /\ result[1].total_item = RuleT
               /\ result[1].difference = Abs(p)

\* C3 as claimed: whatever the labels and the row order, when the rows labelled
\* T, A and B carry parsable values, validate_summation(table, {T: [A, B]})
\* returns nothing if value(T) = value(A) + value(B) and one discrepancy of
\* difference |p| if value(T) is off by p, |p| > tolerance
C3_SummationClosure ==
    SingleRuleCall =>
        \A i \in RowsLabelled(RuleT), j \in RowsLabelled(RuleA), l \in RowsLabelled(RuleB) :
            ( /\ RowsLabelled(RuleT) = {i}
              /\ RowsLabelled(RuleA) = {j}
              /\ RowsLabelled(RuleB) = {l}
              /\ ValueOfRow(args.table.rows[i]) # NoneVal
              /\ ValueOfRow(args.table.rows[j]) # NoneVal
              /\ ValueOfRow(args.table.rows[l]) # NoneVal )
            => ClosureHolds(ValueOfRow(args.table.rows[i]), ValueOfRow(args.table.rows[j]),
                            ValueOfRow(args.table.rows[l]))

\* the first row from the top whose label contains item, 0 when there is none
FirstRowContaining(item) ==
    LET hits == MatchingRows(args.table.rows, <<item>>)
    IN  IF hits = {} THEN 0 ELSE MinOf(hits)

\* C3 as amended: the same closure, the values being those of the first rows from
\* the top whose label contains T, A and B, when these rows carry parsable values
C3_SummationClosureOfFirstMatches ==
    SingleRuleCall =>
        LET i == FirstRowContaining(RuleT)
            j == FirstRowContaining(RuleA)
            l == FirstRowContaining(RuleB)
        IN  ( /\ i # 0 /\ j # 0 /\ l # 0
              /\ ValueOfRow(args.table.rows[i]) # NoneVal
              /\ ValueOfRow(args.table.rows[j]) # NoneVal
              /\ ValueOfRow(args.table.rows[l]) # NoneVal )
            => ClosureHolds(ValueOfRow(args.table.rows[i]), ValueOfRow(args.table.rows[j]),
                            ValueOfRow(args.table.rows[l]))

\* under tolerance 2, 资产总计 1 against 流动资产 3 + 非流动资产 3: one discrepancy of 5
C3_Witness ==
    /\ SingleRuleCall
    /\ tolerance = Int2Num(2)
    /\ args.table.rows = << <<ZiChanZongJi, <<"1">>, <<"-">>>>,
                            <<LiuDongZiChan, <<"3">>, <<"-">>>>,
                            <<FeiLiuDongZiChan, <<"3">>, <<"-">>>> >>
    /\ Len(result) = 1
    /\ result[1].difference = Int2Num(5)

(***************************************************************************)
(* C15.  A rule is reported exactly when its total is off its calculated   *)
(* total by more than the tolerance.  Sums are taken in hundredths.        *)
(***************************************************************************)
\* the indices of the listed sub-items whose value extracts
ExtractingSubItems(table, sub_items) ==
    {i \in 1..Len(sub_items) : DataValidator_extract_value(table, sub_items[i]) # NoneVal}

\* the sum, in units of 10^-MaxFracDigits, of the values of sub_items[1..i] that
\* extract; 0 when none does
RECURSIVE NonNullSum(_, _, _)
NonNullSum(table, sub_items, i) ==
    IF i = 0 THEN 0
    ELSE NonNullSum(table, sub_items, i - 1)
           + (IF i \in ExtractingSubItems(table, sub_items)
              THEN Scaled(DataValidator_extract_value(table, sub_items[i]), MaxFracDigits)
              ELSE 0)

\* |total_item_value - calculated_total| > tolerance, for a rule whose total extracts
OffCalculatedTotal(table, rule) ==
    AbsInt(Scaled(DataValidator_extract_value(table, rule.total_item), MaxFracDigits)
             - NonNullSum(table, rule.sub_items, Len(rule.sub_items)))
        > Scaled(tolerance, MaxFracDigits)

RecordsOfRule(rule) ==
    {n \in 1..Len(result) : result[n].total_item = rule.total_item
                              /\ result[n].sub_items = rule.sub_items}

\* C15 as claimed: every rule whose total item has a value is reported (once) if
\* and only if the total is off the sum of the sub-items that extract by more than
\* the tolerance, a sum over no sub-item being 0
C15_ReportedIffOffTotal ==
    pc = "DataValidator.validate_summation" =>
        \A r \in 1..Len(args.summation_rules) :
            LET rule == args.summation_rules[r]
            IN  DataValidator_extract_value(args.table, rule.total_item) # NoneVal
                  => Cardinality(RecordsOfRule(rule))
                       = IF OffCalculatedTotal(args.table, rule) THEN 1 ELSE 0

\* C15, amended: a rule whose total item has a value is reported (once) if and
\* only if at least one listed sub-item has a value and the total is off the sum of
\* the sub-items that extract by more than the tolerance; the record carries that
\* sum and that difference
C15_ReportedIffSubItemAndOffTotal ==
    pc = "DataValidator.validate_summation" =>
        \A r \in 1..Len(args.summation_rules) :
            LET rule == args.summation_rules[r]
                sum == NonNullSum(args.table, rule.sub_items, Len(rule.sub_items))
            IN  DataValidator_extract_value(args.table, rule.total_item) # NoneVal
                  => /\ Cardinality(RecordsOfRule(rule))
                          = IF ExtractingSubItems(args.table, rule.sub_items) # {}
                               /\ OffCalculatedTotal(args.table, rule)
                            THEN 1 ELSE 0
                     /\ \A n \in RecordsOfRule(rule) :
                            /\ result[n].calculated_total = Num(sum, MaxFracDigits)
                            /\ Gt(result[n].difference, tolerance)

\* under tolerance 0, 资产总计 3 against 流动资产 1 and a sub-item (货币资金) no row
\* carries: one discrepancy, with calculated total 1 and difference 2
C15_Witness ==
    /\ pc = "DataValidator.validate_summation"
    /\ tolerance = Int2Num(0)
    /\ Len(args.summation_rules) = 2
    /\ args.table.rows = << <<LiuDongZiChan, <<"1">>, <<"-">>>>,
                            <<ZiChanZongJi, <<"3">>, <<"-">>>> >>
    /\ Len(result) = 1
    /\ result[1].calculated_total = Int2Num(1)
    /\ result[1].difference = Int2Num(2)

(***************************************************************************)
(* DataValidator.validate_cross_year.  A report is [year, tables]; tables  *)
(* is the dict of its tables in insertion order, a sequence of             *)
(* [name, table].                                                          *)
(***************************************************************************)
KuaNianBuYiZhi == <<"kua", "nian", "bu", "yi1", "zhi4">>   \* 跨年不一致

\* '资产负债表' in table_name or '利润表' in table_name
IsStatement(table_name) ==
    Contains(table_name, ZiChanFuZhaiBiao) \/ Contains(table_name, LiRunBiao)

\* the first non-null value the statement tables give for the item in the column
\* a keyword selects
RECURSIVE ExtractFromTables(_, _, _)
ExtractFromTables(tables, item_name, column_keywords) ==
    IF tables = <<>> THEN NoneVal
    ELSE LET value == IF IsStatement(Head(tables).name)
                      THEN DataValidator_extract_value_from_column(
                               Head(tables).table, item_name, column_keywords)
                      ELSE NoneVal
         IN  IF value # NoneVal THEN value
             ELSE ExtractFromTables(Tail(tables), item_name, column_keywords)

\* a slip that takes a prior-period value that does not extract as 0
DataValidator_extract_last_year_value_ZeroDefault(report, item_name) ==
    LET value == ExtractFromTables(report.tables, item_name, LastYearKeywords)
    IN  IF value = NoneVal THEN Int2Num(0) ELSE value

DataValidator_extract_last_year_value(report, item_name) ==
    ExtractFromTables(report.tables, item_name, LastYearKeywords)

DataValidator_extract_current_year_value(report, item_name) ==
    ExtractFromTables(report.tables, item_name, CurrentYearKeywords)

\* a slip that lets differences within the tolerance pass, as the tolerance-based
\* checks do
Differ_BeyondTolerance(current_last_year_value, previous_year_value) ==
    Gt(Abs(Sub(current_last_year_value, previous_year_value)), tolerance)

\* current_last_year_value != previous_year_value
Differ(current_last_year_value, previous_year_value) ==
    current_last_year_value # previous_year_value

RECURSIVE CrossYearLoop(_, _, _)
CrossYearLoop(current_report, previous_report, items) ==
    IF items = <<>> THEN <<>>
    ELSE LET item == Head(items)
             current_last_year_value ==
                 DataValidator_extract_last_year_value(current_report, item)
             previous_year_value ==
                 DataValidator_extract_current_year_value(previous_report, item)
             rest == CrossYearLoop(current_report, previous_report, Tail(items))
         IN  IF current_last_year_value # NoneVal /\ previous_year_value # NoneVal
                /\ Differ(current_last_year_value, previous_year_value)
             THEN LET diff == Abs(Sub(current_last_year_value, previous_year_value))
                  IN  << [type |-> KuaNianBuYiZhi,
                          item |-> item,
                          current_report_last_year |-> current_last_year_value,
                          previous_report |-> previous_year_value,
                          difference |-> diff,
                          difference_rate |-> DifferenceRate(diff, previous_year_value),
                          severity |-> "High"] >>
                      \o rest
             ELSE rest

DataValidator_validate_cross_year(current_report, previous_report, items) ==
    CrossYearLoop(current_report, previous_report, items)

(***************************************************************************)
(* SpecCrossYear: the current report and the prior report handed to        *)
(* validate_cross_year with a list of items.  The statement table of the   *)
(* current report has up to MaxCrossRows rows; its 上年末 column is         *)
(* compared with the 本期末 column of the prior report's statement table.   *)
(* The cells "5" and "5.0" denote the same value, "5.01" one that differs  *)
(* from it by less than the tolerance 2.                                   *)
(***************************************************************************)
CrossLabels == {ZiChanZongJi, JingZiChan}

CurrentRows ==
    {<<l, <<"9">>, c>> : l \in CrossLabels,
                         c \in {<<"5">>, <<"5", ".", "0">>, <<"5", ".", "0", "1">>, <<"-">>}}
PreviousRows ==
    {<<l, c, <<"-">>>> : l \in CrossLabels, c \in {<<"5">>, <<"5", ".", "0", "1">>, <<"-">>}}

\* a table of the notes, which no cross-year extraction may read
NoteOfCurrentReport == Table(ExtractColumns, << <<ZiChanZongJi, <<"1">>, <<"1">>>> >>)

\* a balance sheet none of whose column headers holds a period keyword
UndatedBalanceSheet == Table(ReconcileColumns, << <<ZiChanZongJi, <<"5">>>> >>)

CurrentReports ==
    { [year |-> 2024, tables |-> <<>>],
      [year |-> 2024, tables |-> << [name |-> ZiChanFuZhaiBiao, table |-> UndatedBalanceSheet] >>] }
      \cup { [year |-> 2024,
              tables |-> << [name |-> ZiChanFuZhaiBiao, table |-> Table(ExtractColumns, rows)] >>] :
                 rows \in UNION {[1..n -> CurrentRows] : n \in 1..MaxCrossRows} }
      \cup { [year |-> 2024,
              tables |-> << [name |-> FuZhu, table |-> NoteOfCurrentReport],
                            [name |-> LiRunBiao, table |-> Table(ExtractColumns, <<r>>)] >>] :
                 r \in CurrentRows }

PreviousReports ==
    { [year |-> 2023,
       tables |-> << [name |-> ZiChanFuZhaiBiao, table |-> Table(ExtractColumns, rows)] >>] :
          rows \in {<<r>> : r \in PreviousRows}
                     \cup {<<r, q>> : r \in {x \in PreviousRows : x[1] = ZiChanZongJi},
                                      q \in {x \in PreviousRows : x[1] = JingZiChan}} }

CrossItemLists ==
    { <<ZiChanZongJi>>, <<ZiChanZongJi, JingZiChan>>, <<JingLiRun, ZiChanZongJi>>,
      <<ZiChanZongJi, ZiChanZongJi>>, CROSS_YEAR_ITEMS }

InitCrossYear ==
    /\ tolerance \in {Int2Num(0), Int2Num(2)}
    /\ validation_results = <<>>
    /\ pc = "call"
    /\ \E current \in CurrentReports, previous \in PreviousReports, items \in CrossItemLists :
           args = [current_report |-> current, previous_report |-> previous, items |-> items]
    /\ result = NoneVal

Call_validate_cross_year ==
    /\ pc = "call"
    /\ "current_report" \in DOMAIN args
    /\ result' = DataValidator_validate_cross_year(args.current_report,
                                                   args.previous_report, args.items)
    /\ pc' = "DataValidator.validate_cross_year"
    /\ UNCHANGED <<tolerance, validation_results, args>>

NextCrossYear == Call_validate_cross_year

SpecCrossYear == InitCrossYear /\ [][NextCrossYear]_vars

(***************************************************************************)
(* C2.  Cross-period exactness.  The two values of an item are the value   *)
(* of its row in the prior-period column of the current report's           *)
(* statement tables and in the current-period column of the prior          *)
(* report's.                                                               *)
(***************************************************************************)
\* the value of the item's first row in the first column a keyword selects
ColumnValue(table, item_name, column_keywords) ==
    LET hits == MatchingRows(table.rows, <<item_name>>)
    IN  IF NoneOrEmpty(table) \/ hits = {} THEN NoneVal
        ELSE KeywordCell(table, table.rows[MinOf(hits)], column_keywords)

\* the value the first statement table that has one gives
StatementValue(report, item_name, column_keywords) ==
    LET having == {t \in 1..Len(report.tables) :
                      /\ IsStatement(report.tables[t].name)
                      /\ ColumnValue(report.tables[t].table, item_name, column_keywords)
                             # NoneVal}
    IN  IF having = {} THEN NoneVal
        ELSE ColumnValue(report.tables[MinOf(having)].table, item_name, column_keywords)

\* C2: an item whose two values are present and equal gets no discrepancy; an
\* item whose two values are present and differ, by however little and whatever
\* the tolerance, gets one discrepancy per listing, of severity High
C2_CrossYearExact ==
    pc = "DataValidator.validate_cross_year" =>
        \A item \in Range(args.items) :
            LET v == StatementValue(args.current_report, item, <<ShangNian, ShangQi>>)
                w == StatementValue(args.previous_report, item, <<BenQi, QiMo, BenNian>>)
                k == Max(v.k, w.k)
                listed == {i \in 1..Len(args.items) : args.items[i] = item}
                reported == {n \in 1..Len(result) : result[n].item = item}
            IN  (v # NoneVal /\ w # NoneVal) =>
                    /\ Scaled(v, k) = Scaled(w, k) => reported = {}
                    /\ Scaled(v, k) # Scaled(w, k) =>
                           /\ Cardinality(reported) = Cardinality(listed)
                           /\ \A n \in reported : result[n].severity = "High"

\* under tolerance 2, 资产总计 is 5.01 in the 上年末 column of the current report and
\* 5 in the 本期末 column of the prior one: one High discrepancy
C2_Witness ==
    /\ pc = "DataValidator.validate_cross_year"
    /\ tolerance = Int2Num(2)
    /\ args.items = <<ZiChanZongJi>>
    /\ StatementValue(args.current_report, ZiChanZongJi, <<ShangNian, ShangQi>>) = Num(501, 2)
    /\ StatementValue(args.previous_report, ZiChanZongJi, <<BenQi, QiMo, BenNian>>) = Int2Num(5)
    /\ Len(result) = 1
    /\ result[1].severity = "High"

(***************************************************************************)
(* C16.  Items without a value on either side are skipped silently.        *)
(***************************************************************************)
\* one of the item's two extractions yields null: no statement table, no column
\* header with a period keyword, no row containing the item, or an unparsable cell
LacksValue(item) ==
    \/ StatementValue(args.current_report, item, <<ShangNian, ShangQi>>) = NoneVal
    \/ StatementValue(args.previous_report, item, <<BenQi, QiMo, BenNian>>) = NoneVal

HasBothValues(item) == ~LacksValue(item)

\* C16: validate_cross_year returns normally, no discrepancy is for an item one of
\* whose extractions yields null, and the list is the one returned when those
\* items are left out of item_names
C16_NullItemsSkipped ==
    pc = "DataValidator.validate_cross_year" =>
        /\ \A n \in 1..Len(result) : HasBothValues(result[n].item)
        /\ result = DataValidator_validate_cross_year(
                        args.current_report, args.previous_report,
                        SelectSeq(args.items, HasBothValues))

\* 净利润, which no row carries, is listed before 资产总计, whose values are 5.01 and
\* 5: the one discrepancy is that of 资产总计
C16_Witness ==
    /\ pc = "DataValidator.validate_cross_year"
    /\ args.items = <<JingLiRun, ZiChanZongJi>>
    /\ LacksValue(JingLiRun)
    /\ StatementValue(args.current_report, ZiChanZongJi, <<ShangNian, ShangQi>>) = Num(501, 2)
    /\ Len(result) = 1
    /\ result[1].item = ZiChanZongJi

(***************************************************************************)
(* FinancialReconciliation: the rule table of _init_reconciliation_rules.  *)
(* A rule is [name, formula, items]; its 'formula' text is kept as the     *)
(* left-hand item and the signed items of the right-hand side; its 'check' *)
(* lambda is the operator check.  financial_data is a function from the    *)
(* item names it holds to floats.  In SpecRules the variable tolerance is  *)
(* self.tolerance of the FinancialReconciliation object.                   *)
(***************************************************************************)
ZiChanFuZhaiPingHeng == <<"zi", "chan", "fu", "zhai", "ping", "heng2">>   \* 资产负债平衡
JingZiChanGouCheng == <<"jing", "zi", "chan", "gou4", "cheng">>   \* 净资产构成
ShiShouJiJin == <<"shi", "shou", "ji", "jin">>   \* 实收基金
WeiFenPeiLiRun == <<"wei", "fen", "pei", "li", "run">>   \* 未分配利润
\* 负债和净资产总计
FuZhaiHeJingZiChanZongJi ==
    <<"fu", "zhai", "he2", "jing", "zi", "chan", "zong", "ji4">>
\* 交易性金融资产分解
JiaoYiXingJinRongZiChanFenJie ==
    <<"jiao", "yi5", "xing", "jin", "rong", "zi", "chan", "fen", "jie3">>
GuPiaoTouZi == <<"gu3", "piao", "tou", "zi">>   \* 股票投资
JiJinTouZi == <<"ji", "jin", "tou", "zi">>   \* 基金投资
ZhaiQuanTouZi == <<"zhai", "quan", "tou", "zi">>   \* 债券投资
\* 资产支持证券投资
ZiChanZhiChiZhengQuanTouZi ==
    <<"zi", "chan", "zhi1", "chi", "zheng", "quan", "tou", "zi">>
GuiJinShuTouZi == <<"gui", "jin", "shu", "tou", "zi">>   \* 贵金属投资
QiTaTouZi == <<"qi2", "ta", "tou", "zi">>   \* 其他投资
LiRunZongEJiSuan == <<"li", "run", "zong", "e", "ji4", "suan">>   \* 利润总额计算
YingYeZongShouRu == <<"ying2", "ye", "zong", "shou", "ru">>   \* 营业总收入
YingYeZongZhiChu == <<"ying2", "ye", "zong", "zhi1", "chu">>   \* 营业总支出
JingLiRunJiSuan == <<"jing", "li", "run", "ji4", "suan">>   \* 净利润计算
SuoDeShuiFeiYong == <<"suo", "de", "shui", "fei", "yong">>   \* 所得税费用
\* 净利润与未分配利润勾稽
JingLiRunYuWeiFenPeiLiRunGouJi ==
    <<"jing", "li", "run", "yu", "wei", "fen", "pei", "li", "run", "gou", "ji1">>
QiMoWeiFenPeiLiRun == <<"qi", "mo", "wei", "fen", "pei", "li", "run">>   \* 期末未分配利润
QiChuWeiFenPeiLiRun == <<"qi", "chu1", "wei", "fen", "pei", "li", "run">>   \* 期初未分配利润
BenQiJingLiRun == <<"ben", "qi", "jing", "li", "run">>   \* 本期净利润
BenQiFenPeiLiRun == <<"ben", "qi", "fen", "pei", "li", "run">>   \* 本期分配利润
QiMoJingZiChanGouJi == <<"qi", "mo", "jing", "zi", "chan", "gou", "ji1">>   \* 期末净资产勾稽
BenQiQiMoJingZiChan == <<"ben", "qi", "qi", "mo", "jing", "zi", "chan">>   \* 本期期末净资产
BenQiQiChuJingZiChan == <<"ben", "qi", "qi", "chu1", "jing", "zi", "chan">>   \* 本期期初净资产
BenQiZengJianBianDongE == <<"ben", "qi", "zeng", "jian", "bian", "dong", "e">>   \* 本期增减变动额
ShiShouJiJinBianDong == <<"shi", "shou", "ji", "jin", "bian", "dong">>   \* 实收基金变动
QiMoShiShouJiJin == <<"qi", "mo", "shi", "shou", "ji", "jin">>   \* 期末实收基金
QiChuShiShouJiJin == <<"qi", "chu1", "shi", "shou", "ji", "jin">>   \* 期初实收基金
\* 本期实收基金变动
BenQiShiShouJiJinBianDong ==
    <<"ben", "qi", "shi", "shou", "ji", "jin", "bian", "dong">>
WeiFenPeiLiRunBianDong == <<"wei", "fen", "pei", "li", "run", "bian", "dong">>   \* 未分配利润变动
\* 本期未分配利润变动
BenQiWeiFenPeiLiRunBianDong ==
    <<"ben", "qi", "wei", "fen", "pei", "li", "run", "bian", "dong">>
ZongHeShouYiZongEJiSuan == <<"zong1", "he", "shou", "yi", "zong", "e", "ji4", "suan">>   \* 综合收益总额计算
ZongHeShouYiZongE == <<"zong1", "he", "shou", "yi", "zong", "e">>   \* 综合收益总额
\* 其他综合收益的税后净额
QiTaZongHeShouYiDeShuiHouJingE ==
    <<"qi2", "ta", "zong1", "he", "shou", "yi", "de5", "shui", "hou", "jing", "e">>

balance_sheet_internal ==
    <<
       \* 资产总计 = 负债合计 + 净资产合计
       [name |-> ZiChanFuZhaiPingHeng,
        formula |-> [lhs |-> ZiChanZongJi,
                     rhs |-> <<<<"+", FuZhaiHeJi>>, <<"+", JingZiChanHeJi>>>>],
        items |-> <<ZiChanZongJi, FuZhaiHeJi, JingZiChanHeJi>>],
       \* 净资产合计 = 实收基金 + 未分配利润
       [name |-> JingZiChanGouCheng,
        formula |-> [lhs |-> JingZiChanHeJi,
                     rhs |-> <<<<"+", ShiShouJiJin>>, <<"+", WeiFenPeiLiRun>>>>],
        items |-> <<JingZiChanHeJi, ShiShouJiJin, WeiFenPeiLiRun>>],
       \* 负债和净资产总计 = 资产总计
       [name |-> FuZhaiHeJingZiChanZongJi,
        formula |-> [lhs |-> FuZhaiHeJingZiChanZongJi,
                     rhs |-> <<<<"+", ZiChanZongJi>>>>],
        items |-> <<FuZhaiHeJingZiChanZongJi, ZiChanZongJi>>],
       \* 交易性金融资产 = 股票投资 + 基金投资 + 债券投资 + 资产支持证券投资 + 贵金属投资 + 其他投资
       [name |-> JiaoYiXingJinRongZiChanFenJie,
        formula |-> [lhs |-> JiaoYiXingJinRongZiChan,
                     rhs |-> <<<<"+", GuPiaoTouZi>>, <<"+", JiJinTouZi>>, <<"+", ZhaiQuanTouZi>>, <<"+", ZiChanZhiChiZhengQuanTouZi>>, <<"+", GuiJinShuTouZi>>, <<"+", QiTaTouZi>>>>],
        items |-> <<JiaoYiXingJinRongZiChan, GuPiaoTouZi, JiJinTouZi, ZhaiQuanTouZi, ZiChanZhiChiZhengQuanTouZi, GuiJinShuTouZi, QiTaTouZi>>]
    >>

income_statement_internal ==
    <<
       \* 利润总额 = 营业总收入 - 营业总支出
       [name |-> LiRunZongEJiSuan,
        formula |-> [lhs |-> LiRunZongE,
                     rhs |-> <<<<"+", YingYeZongShouRu>>, <<"-", YingYeZongZhiChu>>>>],
        items |-> <<LiRunZongE, YingYeZongShouRu, YingYeZongZhiChu>>],
       \* 净利润 = 利润总额 - 所得税费用
       [name |-> JingLiRunJiSuan,
        formula |-> [lhs |-> JingLiRun,
                     rhs |-> <<<<"+", LiRunZongE>>, <<"-", SuoDeShuiFeiYong>>>>],
        items |-> <<JingLiRun, LiRunZongE, SuoDeShuiFeiYong>>]
    >>

income_to_balance ==
    <<
       \* 期末未分配利润 = 期初未分配利润 + 本期净利润 - 本期分配利润
       [name |-> JingLiRunYuWeiFenPeiLiRunGouJi,
        formula |-> [lhs |-> QiMoWeiFenPeiLiRun,
                     rhs |-> <<<<"+", QiChuWeiFenPeiLiRun>>, <<"+", BenQiJingLiRun>>, <<"-", BenQiFenPeiLiRun>>>>],
        items |-> <<QiMoWeiFenPeiLiRun, QiChuWeiFenPeiLiRun, BenQiJingLiRun, BenQiFenPeiLiRun>>]
    >>

net_asset_changes ==
    <<
       \* 本期期末净资产（基金净值）= 本期期初净资产（基金净值）+ 本期增减变动额
       [name |-> QiMoJingZiChanGouJi,
        formula |-> [lhs |-> BenQiQiMoJingZiChan,
                     rhs |-> <<<<"+", BenQiQiChuJingZiChan>>, <<"+", BenQiZengJianBianDongE>>>>],
        items |-> <<BenQiQiMoJingZiChan, BenQiQiChuJingZiChan, BenQiZengJianBianDongE>>],
       \* 期末实收基金 = 期初实收基金 + 本期实收基金变动
       [name |-> ShiShouJiJinBianDong,
        formula |-> [lhs |-> QiMoShiShouJiJin,
                     rhs |-> <<<<"+", QiChuShiShouJiJin>>, <<"+", BenQiShiShouJiJinBianDong>>>>],
        items |-> <<QiMoShiShouJiJin, QiChuShiShouJiJin, BenQiShiShouJiJinBianDong>>],
       \* 期末未分配利润 = 期初未分配利润 + 本期未分配利润变动
       [name |-> WeiFenPeiLiRunBianDong,
        formula |-> [lhs |-> QiMoWeiFenPeiLiRun,
                     rhs |-> <<<<"+", QiChuWeiFenPeiLiRun>>, <<"+", BenQiWeiFenPeiLiRunBianDong>>>>],
        items |-> <<QiMoWeiFenPeiLiRun, QiChuWeiFenPeiLiRun, BenQiWeiFenPeiLiRunBianDong>>],
       \* 综合收益总额 = 净利润 + 其他综合收益的税后净额
       [name |-> ZongHeShouYiZongEJiSuan,
        formula |-> [lhs |-> ZongHeShouYiZongE,
                     rhs |-> <<<<"+", JingLiRun>>, <<"+", QiTaZongHeShouYiDeShuiHouJingE>>>>],
        items |-> <<ZongHeShouYiZongE, JingLiRun, QiTaZongHeShouYiDeShuiHouJingE>>]
    >>

\* the category names validate_reconciliation passes to _check_rule
\* 资产负债表内部勾稽
ZiChanFuZhaiBiaoNeiBuGouJi ==
    <<"zi", "chan", "fu", "zhai", "biao", "nei", "bu4", "gou", "ji1">>
\* 利润表内部勾稽
LiRunBiaoNeiBuGouJi ==
    <<"li", "run", "biao", "nei", "bu4", "gou", "ji1">>
\* 利润表与资产负债表勾稽
LiRunBiaoYuZiChanFuZhaiBiaoGouJi ==
    <<"li", "run", "biao", "yu", "zi", "chan", "fu", "zhai", "biao", "gou", "ji1">>
\* 净资产变动表勾稽
JingZiChanBianDongBiaoGouJi ==
    <<"jing", "zi", "chan", "bian", "dong", "biao", "gou", "ji1">>

StatusPass == <<"check", " ", "tong", "guo">>         \* '✓ 通过'
StatusFail == <<"cross", " ", "bu", "tong", "guo">>   \* '❌ 不通过'

\* data.get(key, 0)
Get0(data, key) == IF key \in DOMAIN data THEN data[key] ELSE Int2Num(0)

\* rule['check'](data): the lambda of the rule of that name
check(rule_name, data) ==
    CASE rule_name = ZiChanFuZhaiPingHeng ->
             Abs(Sub(Get0(data, ZiChanZongJi), Add(Get0(data, FuZhaiHeJi), Get0(data, JingZiChanHeJi))))
      [] rule_name = JingZiChanGouCheng ->
             Abs(Sub(Get0(data, JingZiChanHeJi), Add(Get0(data, ShiShouJiJin), Get0(data, WeiFenPeiLiRun))))
      [] rule_name = FuZhaiHeJingZiChanZongJi ->
             Abs(Sub(Get0(data, FuZhaiHeJingZiChanZongJi), Get0(data, ZiChanZongJi)))
      [] rule_name = JiaoYiXingJinRongZiChanFenJie ->
             Abs(Sub(Get0(data, JiaoYiXingJinRongZiChan), Add(Add(Add(Add(Add(Get0(data, GuPiaoTouZi), Get0(data, JiJinTouZi)), Get0(data, ZhaiQuanTouZi)), Get0(data, ZiChanZhiChiZhengQuanTouZi)), Get0(data, GuiJinShuTouZi)), Get0(data, QiTaTouZi))))
      [] rule_name = LiRunZongEJiSuan ->
             Abs(Sub(Get0(data, LiRunZongE), Sub(Get0(data, YingYeZongShouRu), Get0(data, YingYeZongZhiChu))))
      [] rule_name = JingLiRunJiSuan ->
             Abs(Sub(Get0(data, JingLiRun), Sub(Get0(data, LiRunZongE), Get0(data, SuoDeShuiFeiYong))))
      [] rule_name = JingLiRunYuWeiFenPeiLiRunGouJi ->
             Abs(Sub(Get0(data, QiMoWeiFenPeiLiRun), Sub(Add(Get0(data, QiChuWeiFenPeiLiRun), Get0(data, BenQiJingLiRun)), Get0(data, BenQiFenPeiLiRun))))
      [] rule_name = QiMoJingZiChanGouJi ->
             Abs(Sub(Get0(data, BenQiQiMoJingZiChan), Add(Get0(data, BenQiQiChuJingZiChan), Get0(data, BenQiZengJianBianDongE))))
      [] rule_name = ShiShouJiJinBianDong ->
             Abs(Sub(Get0(data, QiMoShiShouJiJin), Add(Get0(data, QiChuShiShouJiJin), Get0(data, BenQiShiShouJiJinBianDong))))
      [] rule_name = WeiFenPeiLiRunBianDong ->
             Abs(Sub(Get0(data, QiMoWeiFenPeiLiRun), Add(Get0(data, QiChuWeiFenPeiLiRun), Get0(data, BenQiWeiFenPeiLiRunBianDong))))
      [] rule_name = ZongHeShouYiZongEJiSuan ->
             Abs(Sub(Get0(data, ZongHeShouYiZongE), Add(Get0(data, JingLiRun), Get0(data, QiTaZongHeShouYiDeShuiHouJingE))))

\* a slip that evaluates a rule although items are missing
MissingItems_Ignored(items, financial_data) == <<>>

\* [item for item in rule['items'] if item not in financial_data]
MissingItems(items, financial_data) ==
    SelectSeq(items, LAMBDA item : item \notin DOMAIN financial_data)

\* a slip that fails a difference equal to the tolerance
IsPass_Strict(difference) == Gt(tolerance, difference)

\* difference <= self.tolerance
IsPass(difference) == Le(difference, tolerance)

FinancialReconciliation_check_rule(rule, financial_data, category) ==
    IF MissingItems(rule.items, financial_data) # <<>> THEN NoneVal
    ELSE LET difference == check(rule.name, financial_data)
             values == [item \in Range(rule.items) |-> Get0(financial_data, item)]
             is_pass == IsPass(difference)
         IN  [category |-> category,
              name |-> rule.name,
              formula |-> rule.formula,
              items |-> rule.items,
              values |-> values,
              difference |-> difference,
              is_pass |-> is_pass,
              status |-> IF is_pass THEN StatusPass ELSE StatusFail]

\* for rule in self.reconciliation_rules[...]: the results that are not None
RECURSIVE CheckRules(_, _, _)
CheckRules(rules, financial_data, category) ==
    IF rules = <<>> THEN <<>>
    ELSE LET checked == FinancialReconciliation_check_rule(Head(rules), financial_data, category)
         IN  (IF checked # NoneVal THEN <<checked>> ELSE <<>>)
                 \o CheckRules(Tail(rules), financial_data, category)

FinancialReconciliation_validate_reconciliation(financial_data) ==
    CheckRules(balance_sheet_internal, financial_data, ZiChanFuZhaiBiaoNeiBuGouJi)
      \o CheckRules(income_statement_internal, financial_data, LiRunBiaoNeiBuGouJi)
      \o CheckRules(income_to_balance, financial_data, LiRunBiaoYuZiChanFuZhaiBiaoGouJi)
      \o CheckRules(net_asset_changes, financial_data, JingZiChanBianDongBiaoGouJi)

(***************************************************************************)
(* SpecRules: a financial_data dict handed to validate_reconciliation,     *)
(* under the default tolerance 0.01 or the tolerance 1.  The dict is built *)
(* around one rule: it holds that rule's items, up to MaxMissing of them   *)
(* left out, with the values 0, 1 or inf (the float a cell reading 'inf'   *)
(* parses to), and either nothing else or every other item at 0.           *)
(***************************************************************************)
AllRules ==
    balance_sheet_internal \o income_statement_internal \o income_to_balance
        \o net_asset_changes

AllItems == UNION {Range(AllRules[r].items) : r \in 1..Len(AllRules)}

RuleValues == {Int2Num(0), Int2Num(1), Inf(1)}

\* the dicts that hold the items of present with the values of given, and, when
\* filled, every item outside the rule at 0
DataAround(rule, present, given, filled) ==
    [item \in present \cup (IF filled THEN AllItems \ Range(rule.items) ELSE {}) |->
        IF item \in present THEN given[item] ELSE Int2Num(0)]

InitRules ==
    /\ tolerance \in {Num(1, 2), Int2Num(1)}
    /\ validation_results = <<>>
    /\ pc = "call"
    /\ \E r \in 1..Len(AllRules), filled \in BOOLEAN :
       \E present \in SUBSET Range(AllRules[r].items) :
           /\ Cardinality(Range(AllRules[r].items) \ present) <= MaxMissing
           /\ \E given \in [present -> RuleValues] :
                  args = [financial_data |-> DataAround(AllRules[r], present, given, filled)]
    /\ result = NoneVal

Call_validate_reconciliation ==
    /\ pc = "call"
    /\ "financial_data" \in DOMAIN args
    /\ result' = FinancialReconciliation_validate_reconciliation(args.financial_data)
    /\ pc' = "FinancialReconciliation.validate_reconciliation"
    /\ UNCHANGED <<tolerance, validation_results, args>>

NextRules == Call_validate_reconciliation

SpecRules == InitRules /\ [][NextRules]_vars

(***************************************************************************)
(* C5.  One result per rule whose items are all present, none for a rule   *)
(* with an item missing.                                                   *)
(***************************************************************************)
ResultsNamed(rule_name) == {n \in 1..Len(result) : result[n].name = rule_name}

\* C5: a rule whose items are all in the data has exactly one result, a rule with
\* a missing item has none (so it is never reported as failed), and there is no
\* other result
C5_OneResultPerApplicableRule ==
    pc = "FinancialReconciliation.validate_reconciliation" =>
        /\ \A r \in 1..Len(AllRules) :
               Cardinality(ResultsNamed(AllRules[r].name)) =
                   IF Range(AllRules[r].items) \subseteq DOMAIN args.financial_data
                   THEN 1 ELSE 0
        /\ \A n \in 1..Len(result) : \E r \in 1..Len(AllRules) : result[n].name = AllRules[r].name

\* 资产总计 is missing and 负债合计 is 1: evaluated with the default 0 the balance rule
\* would fail, but it is skipped while other rules are reported
C5_Witness ==
    /\ pc = "FinancialReconciliation.validate_reconciliation"
    /\ ZiChanZongJi \notin DOMAIN args.financial_data
    /\ {FuZhaiHeJi, JingZiChanHeJi} \subseteq DOMAIN args.financial_data
    /\ args.financial_data[FuZhaiHeJi] = Int2Num(1)
    /\ ResultsNamed(ZiChanFuZhaiPingHeng) = {}
    /\ Len(result) > 0

(***************************************************************************)
(* C6.  The reported difference is |left-hand side - right-hand side| of   *)
(* the rule's formula, and is_pass is difference <= tolerance.  The        *)
(* formula is evaluated here in integers from the values the result        *)
(* carries; with an infinite value the difference is inf, or nan when      *)
(* infinities of both signs meet, and nothing is <= the tolerance.         *)
(***************************************************************************)
\* the sum of the signed right-hand terms, the values being integers
RECURSIVE SignedSum(_, _)
SignedSum(terms, values) ==
    IF terms = <<>> THEN 0
    ELSE (IF Head(terms)[1] = "+" THEN values[Head(terms)[2]].n
          ELSE 0 - values[Head(terms)[2]].n)
             + SignedSum(Tail(terms), values)

\* the signs with which the infinite values enter left-hand side - right-hand side
InfiniteSigns(formula, values) ==
    {1 : x \in {formula.lhs} \cap {i \in DOMAIN values : values[i].kind = "inf"}}
      \cup {IF formula.rhs[t][1] = "+" THEN 0 - 1 ELSE 1 :
               t \in {u \in 1..Len(formula.rhs) : values[formula.rhs[u][2]].kind = "inf"}}

\* C6: every result's difference is |lhs - rhs| of its rule's formula, never
\* negative, and is_pass holds exactly when difference <= tolerance (a difference
\* equal to the tolerance passes)
C6_DifferenceAndPass ==
    pc = "FinancialReconciliation.validate_reconciliation" =>
        \A n \in 1..Len(result) :
            LET r == result[n]
                signs == InfiniteSigns(r.formula, r.values)
                expected == AbsInt(r.values[r.formula.lhs].n - SignedSum(r.formula.rhs, r.values))
            IN  /\ \A item \in Range(r.items) : r.values[item] = args.financial_data[item]
                /\ ~(r.difference.kind \in {"num", "inf"} /\ r.difference.n < 0)
                /\ IF signs = {}
                   THEN /\ r.difference = Int2Num(expected)
                        /\ r.is_pass <=> expected * Pow10(tolerance.k) <= tolerance.n
                   ELSE /\ r.difference = IF Cardinality(signs) = 1 THEN Inf(1) ELSE NaN
                        /\ ~r.is_pass

\* under tolerance 1, 资产总计 1 against 负债合计 0 + 净资产合计 0: the difference equals
\* the tolerance and the rule passes
C6_Witness ==
    /\ pc = "FinancialReconciliation.validate_reconciliation"
    /\ tolerance = Int2Num(1)
    /\ \E n \in 1..Len(result) :
           /\ result[n].name = ZiChanFuZhaiPingHeng
           /\ result[n].difference = Int2Num(1)
           /\ result[n].is_pass

(***************************************************************************)
(* DataValidator.validate_reconciliation: the values of each (main item,   *)
(* note item) pair of a caller-supplied mapping are compared.  The mapping *)
(* is a dict, modelled as the sequence of its items in insertion order.    *)
(***************************************************************************)
RECURSIVE ReconciliationLoop(_, _, _)
ReconciliationLoop(main_table, note_table, mapping) ==
    IF mapping = <<>> THEN <<>>
    ELSE LET main_item == Head(mapping)[1]
             note_item == Head(mapping)[2]
             main_value == DataValidator_extract_value(main_table, main_item)
             note_value == DataValidator_extract_value(note_table, note_item)
             rest == ReconciliationLoop(main_table, note_table, Tail(mapping))
         IN  IF main_value # NoneVal /\ note_value # NoneVal
                /\ ExceedsTolerance(Abs(Sub(main_value, note_value)))
             THEN LET diff == Abs(Sub(main_value, note_value))
                  IN  << [type |-> GouJiChaYi,
                          main_item |-> main_item,
                          note_item |-> note_item,
                          main_value |-> main_value,
                          note_value |-> note_value,
                          difference |-> diff,
                          difference_rate |-> DifferenceRate(diff, main_value),
                          severity |-> DataValidator_assess_severity(diff, main_value)] >>
                      \o rest
             ELSE rest

DataValidator_validate_reconciliation(main_table, note_table, mapping) ==
    ReconciliationLoop(main_table, note_table, mapping)

(***************************************************************************)
(* SpecTolerance: one set of input tables is validated, a validator with   *)
(* the same or a higher tolerance is constructed, and the same tables are  *)
(* validated again.  The variable result keeps the list the caller received*)
(* from the last call; constructing a validator does not touch it.         *)
(***************************************************************************)
MaxTolerance == 5

Tolerances == {Int2Num(t) : t \in 0..MaxTolerance} \cup {Num(25, 1)}

ToleranceMainRows ==
    { <<HuoBiZiJin, <<"5">>>>, <<HuoBiZiJin, <<"-", "5">>>>,
      <<CunChuBaoZhengJin, <<"5">>>>, <<CunChuBaoZhengJin, <<"0">>>> }
ToleranceMainTables ==
    {Table(ReconcileColumns, <<r, q>>) : r \in ToleranceMainRows, q \in ToleranceMainRows}
ToleranceNoteRows == {<<l, c>> : l \in NoteLabels, c \in {<<"5">>, <<"7">>}}
ToleranceNoteTables ==
    {Table(ReconcileColumns, <<r, q>>) : r \in ToleranceNoteRows, q \in ToleranceNoteRows}

ToleranceMappings ==
    { << <<HuoBiZiJin, YinHangCunKuan>>, <<CunChuBaoZhengJin, CunChuBaoZhengJin>> >>,
      << <<CunChuBaoZhengJin, YinHangCunKuan>> >> }

\* 流动资产, 非流动资产 and 资产总计, top to bottom
ToleranceSumTables ==
    {Table(ExtractColumns, << <<LiuDongZiChan>> \o a, <<FeiLiuDongZiChan>> \o b,
                              <<ZiChanZongJi>> \o c >>) :
        a \in SumCells, b \in SumCells, c \in SumCells}

\* DataValidator.__init__(tolerance), for a tolerance no lower than the last one
DataValidator_init ==
    /\ pc # "call"
    /\ \E t \in Tolerances : Le(tolerance, t) /\ tolerance' = t
    /\ validation_results' = <<>>
    /\ pc' = "call"
    /\ UNCHANGED <<args, result>>

Call_DataValidator_validate_reconciliation ==
    /\ pc = "call"
    /\ "mapping" \in DOMAIN args
    /\ result' = DataValidator_validate_reconciliation(args.main_table, args.note_table,
                                                       args.mapping)
    /\ pc' = "DataValidator.validate_reconciliation"
    /\ UNCHANGED <<tolerance, validation_results, args>>

InitTolerance ==
    /\ tolerance \in Tolerances
    /\ validation_results = <<>>
    /\ pc = "call"
    /\ \/ \E main \in ToleranceMainTables, note \in ToleranceNoteTables :
              args = [main_table |-> main, note_table |-> note,
                      main_name |-> ZiChanFuZhaiBiao, note_name |-> FuZhu]
       \/ \E main \in ToleranceMainTables, note \in ToleranceNoteTables,
             mapping \in ToleranceMappings :
              args = [main_table |-> main, note_table |-> note, mapping |-> mapping]
       \/ \E table \in ToleranceSumTables, rules \in SumRuleDicts :
              args = [table |-> table, summation_rules |-> rules]
    /\ result = NoneVal

NextTolerance ==
    \/ Call_reconcile_tables
    \/ Call_DataValidator_validate_reconciliation
    \/ Call_validate_summation
    \/ DataValidator_init

SpecTolerance == InitTolerance /\ [][NextTolerance]_vars

(***************************************************************************)
(* C12.  Tolerance monotonicity.                                           *)
(***************************************************************************)
\* what the validator in its present state returns for the tables in args
Reported_Now ==
    IF "mapping" \in DOMAIN args
    THEN DataValidator_validate_reconciliation(args.main_table, args.note_table, args.mapping)
    ELSE IF "main_name" \in DOMAIN args
    THEN DataValidator_reconcile_tables(args.main_table, args.note_table,
                                        args.main_name, args.note_name)
    ELSE DataValidator_validate_summation(args.table, args.summation_rules)

\* a is b with some elements left out
RECURSIVE IsSubsequence(_, _)
IsSubsequence(a, b) ==
    IF a = <<>> THEN TRUE
    ELSE IF b = <<>> THEN FALSE
    ELSE IF Head(a) = Head(b) THEN IsSubsequence(Tail(a), Tail(b))
    ELSE IsSubsequence(a, Tail(b))

\* C12: when the tables validated under a tolerance t1 are validated again by a
\* validator of tolerance t2 >= t1, every discrepancy of the second list is one of
\* the first, in the same order, so the second list is never the longer one
C12_ToleranceMonotone ==
    [][(pc = "call" /\ pc' # "call" /\ result # NoneVal)
           => /\ IsSubsequence(result', result)
              /\ Len(result') <= Len(result)]_vars

\* 货币资金 5 against 银行存款 7 and 存出保证金 0 against 5 were both reported under
\* tolerance 0; the validator of tolerance 2 reports the second alone
C12_Witness ==
    /\ pc = "call"
    /\ result # NoneVal
    /\ "main_name" \in DOMAIN args
    /\ tolerance = Int2Num(2)
    /\ Len(result) = 2
    /\ Len(Reported_Now) = 1
    /\ Reported_Now[1] = result[2]
    /\ result[1].difference = Int2Num(2)

(***************************************************************************)
(* C17.  The difference rate of a discrepancy of the cross-table matcher.  *)
(* A rate is a fraction in lowest terms; the equations are                 *)
(* cross-multiplied.                                                       *)
(***************************************************************************)
MatcherReturned ==
    pc \in {"DataValidator._reconcile_tables", "DataValidator.validate_reconciliation"}

\* rate = factor * difference / main_value, and 0 when main_value is 0
RateIs(r, factor) ==
    LET k == Max(r.difference.k, r.main_value.k)
    IN  /\ r.difference_rate.den > 0
        /\ IF IsZero(r.main_value) THEN r.difference_rate.num = 0
           ELSE r.difference_rate.num * Scaled(r.main_value, k)
                    = factor * Scaled(r.difference, k) * r.difference_rate.den

\* C17 as claimed: the difference_rate of every discrepancy of the matcher is
\* difference / main_value, and 0 when main_value is 0
C17_RateIsRatio ==
    MatcherReturned => \A n \in 1..Len(result) : RateIs(result[n], 1)

\* C17, amended: the difference_rate of every discrepancy of the matcher is the
\* percentage difference / main_value * 100 (negative for a negative main_value),
\* and 0 when main_value is 0
C17_RateIsPercentage ==
    MatcherReturned => \A n \in 1..Len(result) : RateIs(result[n], 100)

\* validate_reconciliation under tolerance 0: 货币资金 -5 against 银行存款 5 has the
\* rate -200 (percent), and 存出保证金 0 against 5 the rate 0
C17_Witness ==
    /\ pc = "DataValidator.validate_reconciliation"
    /\ tolerance = Int2Num(0)
    /\ Len(result) = 2
    /\ result[1].main_value = Int2Num(0 - 5)
    /\ result[1].difference = Int2Num(10)
    /\ result[1].difference_rate = Fraction(0 - 200, 1)
    /\ result[2].main_value = Int2Num(0)
    /\ result[2].difference = Int2Num(5)
    /\ result[2].difference_rate = Fraction(0, 1)

(***************************************************************************)
(* ReconciliationRules.identify_summation_relationships: the rows above a  *)
(* total row, up to the previous total row, become its sub-items.  The     *)
(* returned dict is the sequence of its [total_item, sub_items] entries in *)
(* insertion order.                                                        *)
(***************************************************************************)
\* the keywords that make a row a total row: ['合计', '总计', '总额', '小计']
TotalKeywords == <<HeJi, ZongJi, ZongE, XiaoJi>>

\* the keywords that stop the upward scan: ['合计', '总计', '总额']
StopKeywords == <<HeJi, ZongJi, ZongE>>

\* str.isdigit
IsDigit(s) == s # <<>> /\ \A i \in 1..Len(s) : s[i] \in Digits

\* item and item.strip() and not item.replace('.', '').replace(',', '').isdigit()
IsItemName(item) ==
    item # <<>> /\ Strip(item) # <<>> /\ ~IsDigit(Remove(Remove(item, "."), ","))

\* [(idx, item) for idx, item in enumerate(first_col) if a total keyword is in item],
\* as the increasing sequence of the (1-based) indices
RECURSIVE TotalIndices(_, _)
TotalIndices(first_col, idx) ==
    IF idx > Len(first_col) THEN <<>>
    ELSE (IF AnyKeywordIn(first_col[idx], TotalKeywords) THEN <<idx>> ELSE <<>>)
            \o TotalIndices(first_col, idx + 1)

\* a scan that stops at a row carrying any total keyword, 小计 included
RECURSIVE ScanUp_StopAtSubtotal(_, _)
ScanUp_StopAtSubtotal(first_col, i) ==
    IF i = 0 THEN <<>>
    ELSE IF AnyKeywordIn(first_col[i], TotalKeywords) THEN <<>>
    ELSE (IF IsItemName(first_col[i]) THEN <<first_col[i]>> ELSE <<>>)
            \o ScanUp_StopAtSubtotal(first_col, i - 1)

\* the upward scan from row i: sub_items in the order they are appended
RECURSIVE ScanUp(_, _)
ScanUp(first_col, i) ==
    IF i = 0 THEN <<>>
    ELSE IF AnyKeywordIn(first_col[i], StopKeywords) THEN <<>>
    ELSE (IF IsItemName(first_col[i]) THEN <<first_col[i]>> ELSE <<>>)
            \o ScanUp(first_col, i - 1)

\* list(reversed(s))
Reversed(s) == [i \in 1..Len(s) |-> s[Len(s) + 1 - i]]

\* relationships[total_item] = sub_items: an existing key keeps its position
DictSet(relationships, total_item, sub_items) ==
    IF \E n \in 1..Len(relationships) : relationships[n].total_item = total_item
    THEN [n \in 1..Len(relationships) |->
             IF relationships[n].total_item = total_item
             THEN [total_item |-> total_item, sub_items |-> sub_items]
             ELSE relationships[n]]
    ELSE Append(relationships, [total_item |-> total_item, sub_items |-> sub_items])

RECURSIVE RelationshipsLoop(_, _, _)
RelationshipsLoop(first_col, total_indices, relationships) ==
    IF total_indices = <<>> THEN relationships
    ELSE LET total_idx == Head(total_indices)
             sub_items == ScanUp(first_col, total_idx - 1)
         IN  RelationshipsLoop(first_col, Tail(total_indices),
                 IF sub_items # <<>>
                 THEN DictSet(relationships, first_col[total_idx], Reversed(sub_items))
                 ELSE relationships)

ReconciliationRules_identify_summation_relationships(table) ==
    IF NoneOrEmpty(table) THEN <<>>
    ELSE RelationshipsLoop(FirstColumn(table), TotalIndices(FirstColumn(table), 1), <<>>)

(***************************************************************************)
(* SpecIdentify: a table of up to MaxIdentifyRows rows (or None) handed to *)
(* identify_summation_relationships.  The labels are two plain items, a    *)
(* subtotal (小计), two totals (流动资产合计, 资产总计), a number and a blank.*)
(***************************************************************************)
MaxIdentifyRows == 4

IdentifyLabels ==
    { HuoBiZiJin, CunChuBaoZhengJin, XiaoJi, LiuDongZiChanHeJi, ZiChanZongJi,
      <<"1", ".", "5">>, BlankLabel }

IdentifyTables ==
    {NoneTable}
      \cup {Table(ReconcileColumns, [i \in 1..Len(labels) |-> <<labels[i], <<"5">>>>]) :
              labels \in UNION {[1..n -> IdentifyLabels] : n \in 0..MaxIdentifyRows}}

InitIdentify ==
    /\ tolerance = Int2Num(2)
    /\ validation_results = <<>>
    /\ pc = "call"
    /\ \E table \in IdentifyTables : args = [identify_table |-> table]
    /\ result = NoneVal

Call_identify_summation_relationships ==
    /\ pc = "call"
    /\ "identify_table" \in DOMAIN args
    /\ result' = ReconciliationRules_identify_summation_relationships(args.identify_table)
    /\ pc' = "ReconciliationRules.identify_summation_relationships"
    /\ UNCHANGED <<tolerance, validation_results, args>>

NextIdentify == Call_identify_summation_relationships

SpecIdentify == InitIdentify /\ [][NextIdentify]_vars

(***************************************************************************)
(* C18.  The sub-items of a total row are the item rows between it and the *)
(* total or subtotal row before it.                                        *)
(***************************************************************************)
IdentifyColumn == FirstColumn(args.identify_table)

CarriesTotalKeyword(label) ==
    \E k \in {HeJi, ZongJi, ZongE, XiaoJi} : Contains(label, k)

\* the nearest row above row i that carries a total or subtotal keyword, 0 for
\* the top of the table
PrecedingTotal(i) ==
    LET above == {j \in 1..(i - 1) : CarriesTotalKeyword(IdentifyColumn[j])}
    IN  IF above = {} THEN 0 ELSE CHOOSE j \in above : \A h \in above : h <= j

\* the labels of the rows strictly between PrecedingTotal(i) and i, top to bottom,
\* without the blank and the purely numeric ones
RECURSIVE LabelsBetween(_, _)
LabelsBetween(from, to) ==
    IF from >= to THEN <<>>
    ELSE (IF IsItemName(IdentifyColumn[from]) THEN <<IdentifyColumn[from]>> ELSE <<>>)
            \o LabelsBetween(from + 1, to)

\* C18: every total or subtotal row whose label no other row bears, and that has a
\* row of an item between it and the total or subtotal row before it, is mapped to
\* the labels of those rows, top to bottom; and no sub-item list holds a label
\* that carries a total or subtotal keyword
C18_SubItemsBetweenTotals ==
    pc = "ReconciliationRules.identify_summation_relationships" =>
        /\ \A i \in 1..Len(IdentifyColumn) :
              LET label == IdentifyColumn[i]
                  expected == LabelsBetween(PrecedingTotal(i) + 1, i)
              IN  (/\ CarriesTotalKeyword(label)
                   /\ \A j \in 1..Len(IdentifyColumn) : IdentifyColumn[j] = label => j = i
                   /\ expected # <<>>)
                      => \E n \in 1..Len(result) :
                             /\ result[n].total_item = label
                             /\ result[n].sub_items = expected
        /\ \A n \in 1..Len(result) : \A s \in 1..Len(result[n].sub_items) :
              ~CarriesTotalKeyword(result[n].sub_items[s])

(***************************************************************************)
(* SettlementAIAnalyzer.detect_duplicates.  trades_df is the sequence of   *)
(* its rows; a row's index label is its position (the loader builds the    *)
(* frame with ignore_index=True).  A row is [Account, Amount, Date,        *)
(* Security, Duplicated]: Amount and Date are numbers or NaN / NaT (both   *)
(* the value NaN here), Date being the ordinal of the settlement date.     *)
(* hash() of a str differs from one interpreter process to the next, so    *)
(* the hash is a function chosen with the call (args.hash).                *)
(* StandardScaler and DBSCAN are computed in exact rational arithmetic:    *)
(* squared distances are fractions, compared with eps^2.                   *)
(***************************************************************************)
HashModulus == 10000
MinSamples == 2
\* eps = 0.5, as the fraction eps^2 = 1/4
EpsSquared == [num |-> 1, den |-> 4]

\* [amount, date_num, security_hash] of a row
Features(row, hash) ==
    << IF row.Amount = NaN THEN 0 ELSE row.Amount.n,
       IF row.Date = NaN THEN 0 ELSE row.Date.n,
       hash[row.Security] % HashModulus >>

FeatureDims == 1..3

RECURSIVE SumOver(_, _)
SumOver(S, f) ==
    IF S = {} THEN 0
    ELSE LET x == CHOOSE y \in S : TRUE IN f[x] + SumOver(S \ {x}, f)

\* n^2 times the variance of feature d over the partition: the sum of the squared
\* differences of all pairs
PairSquares(features, d) ==
    LET pairs == {pq \in (1..Len(features)) \X (1..Len(features)) : pq[1] < pq[2]}
    IN  SumOver(pairs, [pq \in pairs |->
                   (features[pq[1]][d] - features[pq[2]][d])
                     * (features[pq[1]][d] - features[pq[2]][d])])

\* StandardScaler().fit_transform followed by the squared difference of rows p and
\* q in feature d: (x_p - x_q)^2 / variance, a feature of variance 0 being scaled by 1
ScaledSquare(features, p, q, d) ==
    IF PairSquares(features, d) = 0 THEN Fraction(0, 1)
    ELSE Fraction((features[p][d] - features[q][d]) * (features[p][d] - features[q][d])
                      * Len(features) * Len(features),
                  PairSquares(features, d))

FractionSum(a, b) == Fraction(a.num * b.den + b.num * a.den, a.den * b.den)
FractionLe(a, b) == a.num * b.den <= b.num * a.den

\* the squared euclidean distance of rows p and q after scaling
SquaredDistance(features, p, q) ==
    FractionSum(ScaledSquare(features, p, q, 1),
                FractionSum(ScaledSquare(features, p, q, 2),
                            ScaledSquare(features, p, q, 3)))

\* the distance of rows p and q after scaling is at most eps (no single feature
\* may exceed eps, which is tested first)
WithinEps(features, p, q) ==
    /\ \A d \in FeatureDims : FractionLe(ScaledSquare(features, p, q, d), EpsSquared)
    /\ FractionLe(SquaredDistance(features, p, q), EpsSquared)

\* a neighbourhood test that never reaches another row
Neighbourhood_SelfOnly(features, p) == {p}

\* DBSCAN: the eps-neighbourhood of p, p included
Neighbourhood(features, p) == {q \in 1..Len(features) : WithinEps(features, p, q)}

IsCore(features, p) == Cardinality(Neighbourhood(features, p)) >= MinSamples

\* the rows density-reachable from the rows of S
RECURSIVE Expand(_, _)
Expand(features, S) ==
    LET grown == S \cup UNION {Neighbourhood(features, p) : p \in {c \in S : IsCore(features, c)}}
    IN  IF grown = S THEN S ELSE Expand(features, grown)

\* clustering.labels_: rows are visited in order, an unlabelled core row opens the
\* next cluster, and a row in no cluster is noise (-1)
RECURSIVE LabelFrom(_, _, _, _)
LabelFrom(features, p, labels, next) ==
    IF p > Len(features) THEN labels
    ELSE IF labels[p] # -1 \/ ~IsCore(features, p)
    THEN LabelFrom(features, p + 1, labels, next)
    ELSE LET cluster == Expand(features, {p})
         IN  LabelFrom(features, p + 1,
                       [q \in 1..Len(features) |->
                           IF q \in cluster /\ labels[q] = -1 THEN next ELSE labels[q]],
                       next + 1)

\* a labelling that puts every row of the partition in one cluster, noise included
DBSCAN_labels_NoNoise(features) == [q \in 1..Len(features) |-> 0]

DBSCAN_labels(features) ==
    LabelFrom(features, 1, [q \in 1..Len(features) |-> -1], 0)

\* the positions of S, a set of positions, in increasing order
RECURSIVE Ascending(_)
Ascending(S) ==
    IF S = {} THEN <<>> ELSE <<MinOf(S)>> \o Ascending(S \ {MinOf(S)})

\* trades_df['Account'].unique(): the accounts in order of first appearance
RECURSIVE UniqueAccounts(_, _)
UniqueAccounts(trades_df, seen) ==
    IF trades_df = <<>> THEN <<>>
    ELSE IF Head(trades_df).Account \in seen THEN UniqueAccounts(Tail(trades_df), seen)
    ELSE <<Head(trades_df).Account>>
             \o UniqueAccounts(Tail(trades_df), seen \cup {Head(trades_df).Account})

\* the groups of one account: for each cluster label in increasing order, the
\* index labels of its rows
RECURSIVE ClusterGroups(_, _, _, _)
ClusterGroups(account, indices, labels, label) ==
    IF label \notin {labels[i] : i \in 1..Len(labels)} THEN <<>>
    ELSE LET members == Ascending({i \in 1..Len(labels) : labels[i] = label})
             cluster_indices == [m \in 1..Len(members) |-> indices[members[m]]]
         IN  (IF Len(cluster_indices) >= 2
              THEN << [account |-> account, indices |-> cluster_indices,
                       count |-> Len(cluster_indices)] >>
              ELSE <<>>)
                 \o ClusterGroups(account, indices, labels, label + 1)

RECURSIVE AccountLoop(_, _, _)
AccountLoop(trades_df, hash, accounts) ==
    IF accounts = <<>> THEN <<>>
    ELSE LET account == Head(accounts)
             indices == Ascending({i \in 1..Len(trades_df) :
                                      trades_df[i].Account = account})
             features == [i \in 1..Len(indices) |-> Features(trades_df[indices[i]], hash)]
             rest == AccountLoop(trades_df, hash, Tail(accounts))
         IN  IF Len(indices) < 2 THEN rest
             ELSE ClusterGroups(account, indices, DBSCAN_labels(features), 0) \o rest

RECURSIVE SumCounts(_)
SumCounts(groups) == IF groups = <<>> THEN 0 ELSE Head(groups).count + SumCounts(Tail(groups))

\* the returned dict; the empty dict of an empty frame is <<>>
SettlementAIAnalyzer_detect_duplicates(trades_df, hash) ==
    IF trades_df = <<>> THEN <<>>
    ELSE LET marked == Ascending({i \in 1..Len(trades_df) :
                                     trades_df[i].Duplicated = "Y"})
             duplicate_groups == AccountLoop(trades_df, hash, UniqueAccounts(trades_df, {}))
         IN  [total |-> Len(trades_df),
              marked_duplicates |-> Len(marked),
              ai_detected |-> SumCounts(duplicate_groups),
              duplicate_rate |-> Fraction(Len(marked) * 100, Len(trades_df)),
              duplicate_groups |-> duplicate_groups,
              duplicate_trades |-> marked]

(***************************************************************************)
(* SpecDuplicates: a frame of up to MaxTrades trades of two accounts       *)
(* handed to detect_duplicates.  Amounts are in pennies, dates are         *)
(* ordinals (scaling makes the clustering independent of their magnitude,  *)
(* so small numbers stand for them); two securities, whose hashes modulo   *)
(* 10000 may be far apart, adjacent or equal.                              *)
(***************************************************************************)
MaxTrades == 3

Trade(account, amount, date, security, duplicated) ==
    [Account |-> account, Amount |-> amount, Date |-> date, Security |-> security,
     Duplicated |-> duplicated]

FirstDay == 3   \* the ordinal of a settlement date

Trades ==
    { Trade("A", Int2Num(2), Int2Num(FirstDay), "X", "Y"),
      Trade("A", Int2Num(2), Int2Num(FirstDay), "Y", "N"),
      Trade("A", Int2Num(3), Int2Num(FirstDay), "X", "N"),
      Trade("A", Int2Num(9), Int2Num(FirstDay + 6), "X", "N"),
      Trade("A", NaN, NaN, "X", "N"),
      Trade("B", Int2Num(2), Int2Num(FirstDay), "X", "N"),
      Trade("B", Int2Num(2), Int2Num(FirstDay + 1), "X", "Y") }

\* hash('X') is 7 modulo 10000; hash('Y') is adjacent to it, further off, or equal
\* to it modulo 10000
Hashes == {[s \in {"X", "Y"} |-> IF s = "X" THEN 7 ELSE h] : h \in {8, 15, 10007}}

InitDuplicates ==
    /\ tolerance = Int2Num(2)
    /\ validation_results = <<>>
    /\ pc = "call"
    /\ \E trades_df \in UNION {[1..n -> Trades] : n \in 0..MaxTrades}, hash \in Hashes :
           args = [trades_df |-> trades_df, hash |-> hash]
    /\ result = NoneVal

Call_detect_duplicates ==
    /\ pc = "call"
    /\ "trades_df" \in DOMAIN args
    /\ result' = SettlementAIAnalyzer_detect_duplicates(args.trades_df, args.hash)
    /\ pc' = "SettlementAIAnalyzer.detect_duplicates"
    /\ UNCHANGED <<tolerance, validation_results, args>>

NextDuplicates == Call_detect_duplicates

SpecDuplicates == InitDuplicates /\ [][NextDuplicates]_vars

(***************************************************************************)
(* C19.  The shape of the reported duplicate groups.                       *)
(***************************************************************************)
DuplicatesReturned ==
    pc = "SettlementAIAnalyzer.detect_duplicates" /\ args.trades_df # <<>>

GroupMembers(g) == {g.indices[m] : m \in 1..Len(g.indices)}

TradesOfAccount(account) ==
    {i \in 1..Len(args.trades_df) : args.trades_df[i].Account = account}

\* the trade has no other trade of its account within eps of it after scaling
IsNoise(i) ==
    LET account == args.trades_df[i].Account
        indices == Ascending(TradesOfAccount(account))
        features == [m \in 1..Len(indices) |-> Features(args.trades_df[indices[m]], args.hash)]
    IN  \A p, q \in 1..Len(indices) :
            (indices[p] = i /\ q # p) => ~WithinEps(features, p, q)

SameTrade(i, j) ==
    /\ args.trades_df[i].Amount = args.trades_df[j].Amount
    /\ args.trades_df[i].Date = args.trades_df[j].Date
    /\ args.trades_df[i].Security = args.trades_df[j].Security

\* the trade at k is distinct from the one at i for the detector: it differs in
\* amount, in settlement date or in the hash of its security
ClearlyDistinct(k, i) ==
    Features(args.trades_df[k], args.hash) # Features(args.trades_df[i], args.hash)

GroupsOfAccount(account) ==
    {n \in 1..Len(result.duplicate_groups) : result.duplicate_groups[n].account = account}

MinSimilarity == 5
\* fewer filtered cases than this widen the filter
FewCases == 3

\* the positions of s, in order, at which Keep holds
Positions(n, Keep(_)) == Ascending({i \in 1..n : Keep(i)})

\* every arrangement of the positions in idx
Arrangements(idx) ==
    {[i \in 1..Len(idx) |-> idx[p[i]]] :
        p \in {q \in [1..Len(idx) -> 1..Len(idx)] :
                 \A i, j \in 1..Len(idx) : i # j => q[i] # q[j]}}

\* the first n elements of s (all of s when it is shorter)
HeadN(s, n) == SubSeq(s, 1, IF n < Len(s) THEN n ELSE Len(s))

\* DataFrame.sort_values('similarity', ascending=False): rows by non-increasing
\* similarity; the default sort is not stable, so tied rows come in any order
SortValuesDescending(cases, idx) ==
    {s \in Arrangements(idx) :
        \A i, j \in 1..Len(s) : i < j => cases[s[i]].similarity >= cases[s[j]].similarity}

\* search_cases keeps the rows of the wanted product and case type (an unset or
\* empty filter keeps all), sorts them and returns the first top_n with their
\* similarity: the set of results the sort can give
SearchRow(cases, i) == [case_id |-> i, similarity |-> cases[i].similarity]

CaseRetriever_search_cases(cases_df, product_type, case_type, top_n) ==
    LET kept(i) == /\ (product_type # "" => cases_df[i].product_type = product_type)
                   /\ (case_type # "" => cases_df[i].case_type = case_type)
        idx == Positions(Len(cases_df), kept)
    IN {[i \in 1..Len(HeadN(s, top_n)) |-> SearchRow(cases_df, s[i])] :
            s \in SortValuesDescending(cases_df, idx)}

\* numpy argsort: positions by non-decreasing similarity, ties in any order
ArgSort(cases, idx) ==
    {s \in Arrangements(idx) :
        \A i, j \in 1..Len(s) : i < j => cases[s[i]].similarity <= cases[s[j]].similarity}

\* a[-top_n:] keeps the last top_n elements; -0 is 0, so top_n = 0 keeps all
LastN_FromStart(s, top_n) == HeadN(s, top_n)

LastN(s, top_n) ==
    IF top_n = 0 \/ top_n >= Len(s) THEN s
    ELSE SubSeq(s, Len(s) - top_n + 1, Len(s))

\* the rows on which similarity is computed: same asset class and predicted
\* type, widened to the asset class and then to all cases while fewer than 3
FilteredCases(historical_cases, asset_class, predicted_type) ==
    LET n == Len(historical_cases)
        both(i) == /\ historical_cases[i].asset_class = asset_class
                   /\ historical_cases[i].difference_type = predicted_type
        class(i) == historical_cases[i].asset_class = asset_class
        all(i) == TRUE
    IN IF Len(Positions(n, both)) >= FewCases THEN Positions(n, both)
       ELSE IF Len(Positions(n, class)) >= FewCases THEN Positions(n, class)
       ELSE Positions(n, all)

\* the cases of top_indices above the floor, in the order of top_indices
AboveFloor(cases, top_indices) ==
    LET kept == Positions(Len(top_indices),
                          LAMBDA i : cases[top_indices[i]].similarity > MinSimilarity)
    IN [i \in 1..Len(kept) |-> SearchRow(cases, top_indices[kept[i]])]

ValuationAIAnalyzer_find_similar_cases(historical_cases, asset_class, predicted_type, top_n) ==
    IF historical_cases = <<>> THEN {<<>>}
    ELSE {AboveFloor(historical_cases, Reversed(LastN(s, top_n))) :
            s \in ArgSort(historical_cases,
                          FilteredCases(historical_cases, asset_class, predicted_type))}

(***************************************************************************)
(* Specification: a corpus of up to MaxCases cases, a query, a top_n.      *)
(***************************************************************************)
MaxCases == 3

Similarities == {0, 4, 5, 6, 30}

Case(product_type, case_type, similarity) ==
    [product_type |-> product_type, case_type |-> case_type,
     asset_class |-> product_type, difference_type |-> case_type,
     similarity |-> similarity]

Cases ==
    {Case("E", "T", 30), Case("E", "T", 6), Case("E", "T", 5), Case("E", "T", 0),
     Case("E", "U", 30), Case("E", "U", 4), Case("F", "T", 6), Case("F", "U", 0)}

Corpora == UNION {[1..n -> Cases] : n \in 0..MaxCases}

InitSimilarity ==
    /\ tolerance = Int2Num(0)
    /\ validation_results = <<>>
    /\ pc = "call"
    /\ result = NoneVal
    /\ \E corpus \in Corpora, top_n \in 0..MaxCases :
         \/ \E p \in {"", "E"}, c \in {"", "T"} :
              args = [cases_df |-> corpus, product_type |-> p, case_type |-> c,
                      top_n |-> top_n]
         \/ \E a \in {"E", "F"} :
              args = [historical_cases |-> corpus, asset_class |-> a,
                      predicted_type |-> "T", top_n |-> top_n]

Call_search_cases ==
    /\ pc = "call"
    /\ "cases_df" \in DOMAIN args
    /\ result' \in CaseRetriever_search_cases(args.cases_df, args.product_type,
                                              args.case_type, args.top_n)
    /\ pc' = "CaseRetriever.search_cases"
    /\ UNCHANGED <<tolerance, validation_results, args>>

Call_find_similar_cases ==
    /\ pc = "call"
    /\ "historical_cases" \in DOMAIN args
    /\ result' \in ValuationAIAnalyzer_find_similar_cases(args.historical_cases,
                       args.asset_class, args.predicted_type, args.top_n)
    /\ pc' = "ValuationAIAnalyzer._find_similar_cases"
    /\ UNCHANGED <<tolerance, validation_results, args>>

NextSimilarity == Call_search_cases \/ Call_find_similar_cases

SpecSimilarity == InitSimilarity /\ [][NextSimilarity]_vars

(***************************************************************************)
(* C21.  Size, order and floor of the similarity results.                  *)
(***************************************************************************)
SimilarityReturned ==
    pc \in {"CaseRetriever.search_cases", "ValuationAIAnalyzer._find_similar_cases"}

NonIncreasing(rows) ==
    \A i, j \in 1..Len(rows) : i < j => rows[i].similarity >= rows[j].similarity

\* C21: at both call sites the result holds at most top_n items, is ordered by
\* non-increasing similarity and holds no item at or below the floor of 0.05
C21_TopNOrderedAboveFloor ==
    SimilarityReturned =>
        /\ Len(result) <= args.top_n
        /\ NonIncreasing(result)
        /\ \A i \in 1..Len(result) : result[i].similarity > MinSimilarity

\* what holds at both sites: the order
C21_Ordered == SimilarityReturned => NonIncreasing(result)

\* search_cases alone: at most top_n rows
C21_SearchAtMostTopN ==
    pc = "CaseRetriever.search_cases" => Len(result) <= args.top_n

\* _find_similar_cases alone: nothing at or below the floor
C21_FindAboveFloor ==
    pc = "ValuationAIAnalyzer._find_similar_cases" =>
        \A i \in 1..Len(result) : result[i].similarity > MinSimilarity

\* search_cases returns a row of similarity 0
C21_SearchBelowFloor ==
    /\ pc = "CaseRetriever.search_cases"
    /\ \E i \in 1..Len(result) : result[i].similarity = 0

\* _find_similar_cases returns rows although top_n is 0
C21_FindTopZero ==
    /\ pc = "ValuationAIAnalyzer._find_similar_cases"
    /\ args.top_n = 0
    /\ Len(result) > 0

(***************************************************************************)
(* C30.  Truncating before or after the floor.                             *)
(***************************************************************************)
\* the specified order of operations on the same rows: drop the scores not
\* above the floor, then keep the top_n highest
FloorThenTopN(cases, idx, top_n) ==
    LET above == Positions(Len(idx), LAMBDA i : cases[idx[i]].similarity > MinSimilarity)
        kept == [i \in 1..Len(above) |-> idx[above[i]]]
    IN {[i \in 1..Len(HeadN(s, top_n)) |-> SearchRow(cases, s[i])] :
            s \in SortValuesDescending(cases, kept)}

NoTies(cases, idx) ==
    \A i, j \in 1..Len(idx) : i # j => cases[idx[i]].similarity # cases[idx[j]].similarity

FindFiltered ==
    FilteredCases(args.historical_cases, args.asset_class, args.predicted_type)

\* C30: without ties and with top_n >= 1, _find_similar_cases returns the cases
\* the specified order of operations returns, in the same order
C30_SameAsFloorThenTopN ==
    (/\ pc = "ValuationAIAnalyzer._find_similar_cases"
     /\ args.top_n >= 1
     /\ NoTies(args.historical_cases, FindFiltered))
        => FloorThenTopN(args.historical_cases, FindFiltered, args.top_n) = {result}

\* three cases of scores 30, 6 and 4 and top_n = 1: the top case alone
C30_Witness ==
    /\ pc = "ValuationAIAnalyzer._find_similar_cases"
    /\ args.top_n = 1
    /\ Len(args.historical_cases) = 3
    /\ NoTies(args.historical_cases, FindFiltered)
    /\ \E i \in 1..3 : args.historical_cases[i].similarity = 4
    /\ Len(result) = 1
    /\ result[1].similarity = 30

(***************************************************************************)
(* DataValidator.smart_reconciliation, auto_validate_summation and         *)
(* comprehensive_validation (data_validator.py 319-525).                   *)
(***************************************************************************)
ZhuBiao == <<"zhu3", "biao">>   \* 主表
MingXi == <<"ming", "xi4">>   \* 明细
FuZhai == <<"fu", "zhai">>   \* 负债
ShouRu == <<"shou", "ru">>   \* 收入
FeiYong == <<"fei", "yong">>   \* 费用
SunYi == <<"sun", "yi">>   \* 损益

\* the entries of the dict tables whose name is in names, in insertion order
RECURSIVE TablesWhere(_, _)
TablesWhere(tables, names) ==
    IF tables = <<>> THEN <<>>
    ELSE (IF Head(tables).name \in names THEN <<Head(tables)>> ELSE <<>>)
            \o TablesWhere(Tail(tables), names)

TableNames(tables) == {tables[n].name : n \in 1..Len(tables)}

\* '主表' in table_name
MainTableNames(tables) == {name \in TableNames(tables) : Contains(name, ZhuBiao)}

\* elif '附注' in table_name or '明细' in table_name
NoteTableNames(tables) ==
    {name \in TableNames(tables) :
        /\ ~Contains(name, ZhuBiao)
        /\ Contains(name, FuZhu) \/ Contains(name, MingXi)}

\* the note tables a main table is reconciled with
NotesFor(main_table_name, note_names) ==
    IF Contains(main_table_name, ZiChanFuZhaiBiao)
    THEN {name \in note_names : Contains(name, ZiChan) \/ Contains(name, FuZhai)}
    ELSE IF Contains(main_table_name, LiRunBiao)
    THEN {name \in note_names :
             Contains(name, ShouRu) \/ Contains(name, FeiYong) \/ Contains(name, SunYi)}
    ELSE {}

RECURSIVE ReconcileWithNotes(_, _)
ReconcileWithNotes(main, notes) ==
    IF notes = <<>> THEN <<>>
    ELSE DataValidator_reconcile_tables(main.table, Head(notes).table,
                                        main.name, Head(notes).name)
            \o ReconcileWithNotes(main, Tail(notes))

RECURSIVE SmartLoop(_, _)
SmartLoop(main_tables, note_tables) ==
    IF main_tables = <<>> THEN <<>>
    ELSE ReconcileWithNotes(Head(main_tables),
             TablesWhere(note_tables, NotesFor(Head(main_tables).name,
                                               TableNames(note_tables))))
            \o SmartLoop(Tail(main_tables), note_tables)

DataValidator_smart_reconciliation(report) ==
    SmartLoop(TablesWhere(report.tables, MainTableNames(report.tables)),
              TablesWhere(report.tables, NoteTableNames(report.tables)))

\* diff['table_name'] = table_name
WithTableName(diff, table_name) ==
    [f \in DOMAIN diff \cup {"table_name"} |->
        IF f = "table_name" THEN table_name ELSE diff[f]]

\* the differences of one table: validate_summation under the relationships
\* identified in it, when there are any
AutoDifferences(table) ==
    LET summation_relationships == ReconciliationRules_identify_summation_relationships(table)
    IN  IF summation_relationships # <<>>
        THEN DataValidator_validate_summation(table, summation_relationships)
        ELSE <<>>

\* for diff in differences: diff['table_name'] = table_name
Tagged(differences, table_name) ==
    [n \in 1..Len(differences) |-> WithTableName(differences[n], table_name)]

RECURSIVE AutoLoop(_)
AutoLoop(tables) ==
    IF tables = <<>> THEN <<>>
    ELSE Tagged(AutoDifferences(Head(tables).table), Head(tables).name)
            \o AutoLoop(Tail(tables))

DataValidator_auto_validate_summation(report) == AutoLoop(report.tables)

\* the report filed under a year
ReportOf(reports, year) ==
    (CHOOSE n \in 1..Len(reports) : reports[n].year = year) 

\* sorted(reports.keys())
SortedYears(reports) ==
    LET years == {reports[n].year : n \in 1..Len(reports)}
    IN  Ascending(years)

RECURSIVE CrossYearPairs(_, _, _)
CrossYearPairs(reports, sorted_years, i) ==
    IF i + 1 > Len(sorted_years) THEN <<>>
    ELSE DataValidator_validate_cross_year(
             reports[ReportOf(reports, sorted_years[i + 1])],
             reports[ReportOf(reports, sorted_years[i])],
             CROSS_YEAR_ITEMS)
            \o CrossYearPairs(reports, sorted_years, i + 1)

RECURSIVE InternalLoop(_)
InternalLoop(reports) ==
    IF reports = <<>> THEN <<>>
    ELSE DataValidator_smart_reconciliation(Head(reports))
            \o DataValidator_auto_validate_summation(Head(reports))
            \o InternalLoop(Tail(reports))

CountWhere(all_differences, field, value) ==
    Cardinality({n \in 1..Len(all_differences) : all_differences[n][field] = value})

\* result['by_type']: a count per type, the types in the order they first appear
RECURSIVE ByType(_, _, _)
ByType(all_differences, n, by_type) ==
    IF n > Len(all_differences) THEN by_type
    ELSE ByType(all_differences, n + 1,
             IF \E m \in 1..Len(by_type) : by_type[m].type = all_differences[n].type
             THEN by_type
             ELSE Append(by_type,
                         [type |-> all_differences[n].type,
                          count |-> CountWhere(all_differences, "type",
                                               all_differences[n].type)]))

\* the result dict built from all_differences
Summary(all_differences) ==
    [total_differences |-> Len(all_differences),
     by_severity |-> [High |-> CountWhere(all_differences, "severity", "High"),
                      Medium |-> CountWhere(all_differences, "severity", "Medium"),
                      Low |-> CountWhere(all_differences, "severity", "Low")],
     by_type |-> ByType(all_differences, 1, <<>>),
     differences |-> all_differences]

\* reports is the dict {year: report} in insertion order
DataValidator_comprehensive_validation(reports) ==
    Summary(CrossYearPairs(reports, SortedYears(reports), 1) \o InternalLoop(reports))

(***************************************************************************)
(* SpecSequence: one DataValidator serves a sequence of calls: a call, up  *)
(* to MaxOtherCalls other calls, and the first call again.  args.calls is  *)
(* the sequence of calls with their arguments, result the sequence of the  *)
(* values returned so far.                                                 *)
(***************************************************************************)
MaxOtherCalls == 1

BalanceSheetMain == ZiChanFuZhaiBiao \o ZhuBiao   \* 资产负债表主表
AssetNote == ZiChan \o FuZhu   \* 资产附注
IncomeDetail == ShouRu \o MingXi   \* 收入明细

SequenceReports ==
    { [year |-> y,
       tables |-> << [name |-> BalanceSheetMain,
                      table |-> Table(ExtractColumns,
                                  << <<LiuDongZiChan, <<"1">>, <<"1">>>>,
                                     <<FeiLiuDongZiChan, <<"1">>, <<"1">>>>,
                                     <<ZiChanZongJi, total, <<"3">>>> >>)],
                     [name |-> AssetNote,
                      table |-> Table(ReconcileColumns,
                                  << <<ZiChanHeJi, <<"9">>>> >>)],
                     [name |-> IncomeDetail,
                      table |-> Table(ReconcileColumns,
                                  << <<ZiChanHeJi, <<"1">>>> >>)] >>] :
        y \in {2023, 2024}, total \in {<<"2">>, <<"9">>} }

\* the reports of the current year, and the one whose 资产总计 reads 9
ReportsOf2024 == {r \in SequenceReports : r.year = 2024}
MisstatedReports == {r \in ReportsOf2024 : r.tables[1].table.rows[3][2] = <<"9">>}

SequenceCalls ==
    {[method |-> "validate_reconciliation", main_table |-> main, note_table |-> note,
      mapping |-> << <<HuoBiZiJin, YinHangCunKuan>> >>] :
        main \in {Table(ReconcileColumns, << <<HuoBiZiJin, <<"5">>>> >>)},
        note \in {Table(ReconcileColumns, << <<YinHangCunKuan, c>> >>) : c \in {<<"5">>, <<"7">>}}}
    \cup
    {[method |-> "validate_cross_year", current_report |-> current,
      previous_report |-> previous, items |-> <<ZiChanZongJi>>] :
        current \in MisstatedReports,
        previous \in {r \in SequenceReports : r.year = 2023}}
    \cup
    {[method |-> "validate_summation", table |-> table, summation_rules |-> rules] :
        table \in {r.tables[1].table : r \in ReportsOf2024},
        rules \in {<< [total_item |-> ZiChanZongJi,
                       sub_items |-> <<LiuDongZiChan, FeiLiuDongZiChan>>] >>}}
    \cup
    {[method |-> "smart_reconciliation", report |-> r] : r \in MisstatedReports}
    \cup
    {[method |-> "auto_validate_summation", report |-> r] : r \in MisstatedReports}
    \cup
    {[method |-> "comprehensive_validation", reports |-> <<r, q>>] :
        r \in MisstatedReports,
        q \in {x \in SequenceReports : x.year = 2023 /\ x.tables[1].table.rows[3][2] = <<"2">>}}

InitSequence ==
    /\ tolerance \in {Int2Num(0), Int2Num(2)}
    /\ validation_results = <<>>
    /\ pc = "call"
    /\ result = <<>>
    /\ \E first \in SequenceCalls,
          others \in UNION {[1..n -> SequenceCalls] : n \in 0..MaxOtherCalls} :
           args = [calls |-> <<first>> \o others \o <<first>>]

\* the call the caller makes next, if any is left
Pending(method) ==
    /\ "calls" \in DOMAIN args
    /\ Len(result) < Len(args.calls)
    /\ args.calls[Len(result) + 1].method = method

NextCall == args.calls[Len(result) + 1]

\* the methods keep their findings in a local list and return it: none assigns
\* an attribute of self or writes to its arguments
Returns(method, value) ==
    /\ result' = Append(result, value)
    /\ pc' = method
    /\ UNCHANGED <<tolerance, validation_results, args>>

\* a method that also files its findings under self.validation_results
Sequence_validate_summation_Recording ==
    /\ Pending("validate_summation")
    /\ LET value == DataValidator_validate_summation(NextCall.table, NextCall.summation_rules)
       IN  /\ result' = Append(result, value)
           /\ validation_results' = validation_results \o value
    /\ pc' = "validate_summation"
    /\ UNCHANGED <<tolerance, args>>

Sequence_validate_reconciliation ==
    /\ Pending("validate_reconciliation")
    /\ Returns("validate_reconciliation",
               DataValidator_validate_reconciliation(NextCall.main_table,
                   NextCall.note_table, NextCall.mapping))

Sequence_validate_cross_year ==
    /\ Pending("validate_cross_year")
    /\ Returns("validate_cross_year",
               DataValidator_validate_cross_year(NextCall.current_report,
                   NextCall.previous_report, NextCall.items))

Sequence_validate_summation ==
    /\ Pending("validate_summation")
    /\ Returns("validate_summation",
               DataValidator_validate_summation(NextCall.table, NextCall.summation_rules))

Sequence_smart_reconciliation ==
    /\ Pending("smart_reconciliation")
    /\ Returns("smart_reconciliation", DataValidator_smart_reconciliation(NextCall.report))

Sequence_auto_validate_summation ==
    /\ Pending("auto_validate_summation")
    /\ Returns("auto_validate_summation",
               DataValidator_auto_validate_summation(NextCall.report))

Sequence_comprehensive_validation ==
    /\ Pending("comprehensive_validation")
    /\ Returns("comprehensive_validation",
               DataValidator_comprehensive_validation(NextCall.reports))

NextSequence ==
    \/ Sequence_validate_reconciliation
    \/ Sequence_validate_cross_year
    \/ Sequence_validate_summation
    \/ Sequence_smart_reconciliation
    \/ Sequence_auto_validate_summation
    \/ Sequence_comprehensive_validation

SpecSequence == InitSequence /\ [][NextSequence]_vars

MaxLabelRows == 2

LabelOnlyLabels == {HuoBiZiJin, LiuDongZiChanHeJi, ZiChanZongJi}

LabelOnlyTables ==
    {Table(<<XiangMu>>, rows) :
        rows \in UNION {[1..n -> {<<l>> : l \in LabelOnlyLabels}] : n \in 1..MaxLabelRows}}

EmptyTables ==
    {Table(ExtractColumns, <<>>), Table(<<>>, <<>>), Table(<<>>, << <<>>, <<>> >>)}

MalformedTables == {NoneTable} \cup EmptyTables \cup LabelOnlyTables

\* tables with a value column, whose labels the malformed ones share
WellFormedTables ==
    {Table(ReconcileColumns, << <<l, <<"5">>>>, <<ZiChanZongJi, <<"7">>>> >>) :
        l \in LabelOnlyLabels}

InitMalformed ==
    /\ tolerance = Int2Num(0)
    /\ validation_results = <<>>
    /\ pc = "call"
    /\ result = NoneVal
    /\ \/ \E table \in MalformedTables, item \in {ZiChanZongJi, HuoBiZiJin} :
            args = [table |-> table, item_name |-> item,
                    column_keywords |-> <<>>, item_names |-> <<>>, col_index |-> 0]
       \/ \E main \in MalformedTables \cup WellFormedTables,
             note \in MalformedTables \cup WellFormedTables :
            /\ main \in MalformedTables \/ note \in MalformedTables
            /\ args = [main_table |-> main, note_table |-> note,
                       main_name |-> ZiChanFuZhaiBiao, note_name |-> FuZhu]
       \/ \E table \in MalformedTables, rules \in SumRuleDicts :
            args = [table |-> table, summation_rules |-> rules]
       \/ \E table \in MalformedTables : args = [identify_table |-> table]

NextMalformed ==
    \/ Call_extract_value
    \/ Call_extract_value_from_column
    \/ Call_find_value_in_df
    \/ Call_reconcile_tables
    \/ Call_validate_summation
    \/ Call_identify_summation_relationships

SpecMalformed == InitMalformed /\ [][NextMalformed]_vars

(***************************************************************************)
(* C23.  Malformed tables give null or empty results.                      *)
(***************************************************************************)
ExtractorReturned ==
    pc \in {"DataValidator._extract_value", "DataValidator._extract_value_from_column",
            "FinancialReconciliation._find_value_in_df"}

\* the table with a value column added to every row
WithValueColumn(table) ==
    Table(ReconcileColumns, [n \in 1..Len(table.rows) |-> table.rows[n] \o << <<"5">> >>])

\* C23: on a null, empty or label-only table the extractors return null and the
\* table-level operations return an empty result
C23_MalformedGivesNothing ==
    /\ ExtractorReturned => result = NoneVal
    /\ pc \in {"DataValidator._reconcile_tables", "DataValidator.validate_summation",
               "ReconciliationRules.identify_summation_relationships"}
          => result = <<>>

\* C23, with identify_summation_relationships reading the label column alone: it
\* is empty on a null or empty table, and on a label-only table it returns the
\* relationships the same labels give with a value column beside them
C23_MalformedHandled ==
    /\ ExtractorReturned => result = NoneVal
    /\ pc \in {"DataValidator._reconcile_tables", "DataValidator.validate_summation"}
          => result = <<>>
    /\ pc = "ReconciliationRules.identify_summation_relationships"
          => IF NoneOrEmpty(args.identify_table) THEN result = <<>>
             ELSE result = ReconciliationRules_identify_summation_relationships(
                               WithValueColumn(args.identify_table))

\* the label-only table 货币资金, 资产总计 yields the relationship 资产总计: [货币资金]
C23_Witness ==
    /\ pc = "ReconciliationRules.identify_summation_relationships"
    /\ args.identify_table = Table(<<XiangMu>>, << <<HuoBiZiJin>>, <<ZiChanZongJi>> >>)
    /\ result = << [total_item |-> ZiChanZongJi, sub_items |-> <<HuoBiZiJin>>] >>

(***************************************************************************)
(* FinancialReconciliation.validate_cross_year_consistency                 *)
(* (financial_reconciliation.py 445-494).  The two financial-data dicts    *)
(* are functions from keys to values; a key outside the domain is absent.  *)
(***************************************************************************)
ShangNianDuKeBiQuJian ==
    <<"shang", "nian", "du", "ke", "bi3", "qu", "jian">>   \* 上年度可比区间

StatusConsistent == <<"check", " ", "yi1", "zhi4">>          \* '✓ 一致'
StatusInconsistent == <<"cross", " ", "bu", "yi1", "zhi4">>  \* '❌ 不一致'

\* (current key, previous key, item name)
cross_year_items ==
    << <<ShangNianDuKeBiQuJian \o ZiChanZongJi, QiMo \o ZiChanZongJi, ZiChanZongJi>>,
       <<ShangNianDuKeBiQuJian \o FuZhaiHeJi, QiMo \o FuZhaiHeJi, FuZhaiHeJi>>,
       <<ShangNianDuKeBiQuJian \o JingZiChanHeJi, QiMo \o JingZiChanHeJi, JingZiChanHeJi>>,
       <<ShangQi \o YingYeZongShouRu, BenQi \o YingYeZongShouRu, YingYeZongShouRu>>,
       <<ShangQi \o ZongHeShouYiZongE, BenQi \o ZongHeShouYiZongE, ZongHeShouYiZongE>>,
       <<ShangNianDuKeBiQuJian \o ShiShouJiJin, QiMo \o ShiShouJiJin, ShiShouJiJin>>,
       <<ShangNianDuKeBiQuJian \o WeiFenPeiLiRun, QiMo \o WeiFenPeiLiRun, WeiFenPeiLiRun>> >>

\* data.get(key)
GetNone(data, key) == IF key \in DOMAIN data THEN data[key] ELSE NoneVal

\* a check that fails every pair of values that are not equal
IsConsistent_Exact(difference) == difference = Int2Num(0)

\* is_pass = difference <= self.tolerance
IsConsistent(difference) == Le(difference, tolerance)

RECURSIVE ConsistencyLoop(_, _, _)
ConsistencyLoop(items, current_year_data, previous_year_data) ==
    IF items = <<>> THEN <<>>
    ELSE LET current_value == GetNone(current_year_data, Head(items)[1])
             previous_value == GetNone(previous_year_data, Head(items)[2])
             rest == ConsistencyLoop(Tail(items), current_year_data, previous_year_data)
         IN  IF current_value # NoneVal /\ previous_value # NoneVal
             THEN LET difference == Abs(Sub(current_value, previous_value))
                      is_pass == IsConsistent(difference)
                  IN  << [item |-> Head(items)[3],
                          current_year_comparable |-> current_value,
                          previous_year_current |-> previous_value,
                          difference |-> difference,
                          is_pass |-> is_pass,
                          status |-> IF is_pass THEN StatusConsistent
                                     ELSE StatusInconsistent,
                          formula |-> <<Head(items)[3], Head(items)[3]>>] >> \o rest
             ELSE rest

FinancialReconciliation_validate_cross_year_consistency(current_year_data, previous_year_data) ==
    ConsistencyLoop(cross_year_items, current_year_data, previous_year_data)

(***************************************************************************)
(* SpecCrossPeriod: the two cross-period checks under a tolerance of 0,    *)
(* 0.01 or 2, on values that are equal, 0.01 apart and 2 apart.            *)
(***************************************************************************)
MaxPeriodItems == 2

PeriodValues == {Int2Num(5), Num(501, 2), Int2Num(7)}

\* the first MaxPeriodItems items of cross_year_items, each present or absent
PeriodData(side) ==
    UNION {[{cross_year_items[i][side] : i \in present} -> PeriodValues] :
              present \in SUBSET (1..MaxPeriodItems)}

PeriodReports(year, cells) ==
    { [year |-> year,
       tables |-> << [name |-> ZiChanFuZhaiBiao,
                      table |-> Table(ExtractColumns,
                                      << <<ZiChanZongJi, c, c>> >>)] >>] : c \in cells }

InitCrossPeriod ==
    /\ tolerance \in {Int2Num(0), Num(1, 2), Int2Num(2)}
    /\ validation_results = <<>>
    /\ pc = "call"
    /\ result = NoneVal
    /\ \/ \E current \in PeriodData(1), previous \in PeriodData(2) :
            args = [current_year_data |-> current, previous_year_data |-> previous]
       \/ \E current \in PeriodReports(2024, {<<"5">>, <<"5", ".", "0", "1">>, <<"7">>, <<"-">>}),
             previous \in PeriodReports(2023, {<<"5">>, <<"-">>}) :
            args = [current_report |-> current, previous_report |-> previous,
                    items |-> <<ZiChanZongJi>>]

Call_validate_cross_year_consistency ==
    /\ pc = "call"
    /\ "current_year_data" \in DOMAIN args
    /\ result' = FinancialReconciliation_validate_cross_year_consistency(
                     args.current_year_data, args.previous_year_data)
    /\ pc' = "FinancialReconciliation.validate_cross_year_consistency"
    /\ UNCHANGED <<tolerance, validation_results, args>>

NextCrossPeriod == Call_validate_cross_year \/ Call_validate_cross_year_consistency

SpecCrossPeriod == InitCrossPeriod /\ [][NextCrossPeriod]_vars

(***************************************************************************)
(* C24.  Cross-period checks and the tolerance.                            *)
(***************************************************************************)
\* the results of validate_cross_year_consistency whose two values differ
UnequalPairs ==
    {n \in 1..Len(result) :
        result[n].current_year_comparable # result[n].previous_year_current}

\* C24: at both cross-period checks an item whose two period values are present
\* and differ by any nonzero amount is reported as inconsistent, whatever the
\* tolerance
C24_CrossPeriodZeroTolerance ==
    /\ pc = "DataValidator.validate_cross_year" =>
          \A item \in Range(args.items) :
              (/\ HasBothValues(item)
               /\ StatementValue(args.current_report, item, <<ShangNian, ShangQi>>)
                     # StatementValue(args.previous_report, item, <<BenQi, QiMo, BenNian>>))
                  => \E n \in 1..Len(result) : result[n].item = item
    /\ pc = "FinancialReconciliation.validate_cross_year_consistency" =>
          \A n \in UnequalPairs : ~result[n].is_pass

\* the part that holds: DataValidator.validate_cross_year reports every pair of
\* present values that differ
C24_ValidatorExact ==
    pc = "DataValidator.validate_cross_year" =>
        \A item \in Range(args.items) :
            (/\ HasBothValues(item)
             /\ StatementValue(args.current_report, item, <<ShangNian, ShangQi>>)
                   # StatementValue(args.previous_report, item, <<BenQi, QiMo, BenNian>>))
                => \E n \in 1..Len(result) : result[n].item = item

\* under tolerance 2, 资产总计 is 7 in the comparable column and 5 in the prior
\* year's data, and the pair passes as consistent
C24_PassesWithinTolerance ==
    /\ pc = "FinancialReconciliation.validate_cross_year_consistency"
    /\ tolerance = Int2Num(2)
    /\ \E n \in 1..Len(result) :
          /\ result[n].current_year_comparable = Int2Num(7)
          /\ result[n].previous_year_current = Int2Num(5)
          /\ result[n].is_pass

(***************************************************************************)
(* SpecSameRow: _reconcile_tables on main and note tables of up to         *)
(* MaxSameRows rows in which one label contains another (非流动资产 and       *)
(* 流动资产) and labels repeat, some cells unparsable.                       *)
(***************************************************************************)
MaxSameRows == 2

SameRowTables(labels) ==
    {Table(ReconcileColumns, rows) :
        rows \in UNION {[1..n -> {<<l, c>> : l \in labels, c \in {<<"1">>, <<"5">>, <<"-">>}}] :
                           n \in 1..MaxSameRows}}

InitSameRow ==
    /\ tolerance = Int2Num(0)
    /\ validation_results = <<>>
    /\ pc = "call"
    /\ result = NoneVal
    /\ \E main \in SameRowTables({FeiLiuDongZiChan, LiuDongZiChan}),
          note \in SameRowTables({FeiLiuDongZiChanHeJi, LiuDongZiChanHeJi}) :
           args = [main_table |-> main, note_table |-> note,
                   main_name |-> ZiChanFuZhaiBiao, note_name |-> FuZhu]

NextSameRow == Call_reconcile_tables

SpecSameRow == InitSameRow /\ [][NextSameRow]_vars

(***************************************************************************)
(* C25.  The rows whose values _reconcile_tables compares.                 *)
(***************************************************************************)
\* the note labels matched to the label of main row i
MatchedNoteLabels(i) ==
    Range(find_matching_items(args.main_table.rows[i][1], FirstColumn(args.note_table)))

\* C25: for every main row and every note row whose label is matched to it, the
\* main value compared is the one parsed from that main row and the note value
\* compared is the one parsed from that note row; hence every discrepancy
\* carries the values of a main row and a note row of its two labels
C25_ValuesOfTheMatchedRows ==
    pc = "DataValidator._reconcile_tables" =>
        /\ \A i \in 1..Len(args.main_table.rows) :
              MatchedNoteLabels(i) # {} =>
                 /\ DataValidator_extract_value(args.main_table, args.main_table.rows[i][1])
                       = ValueOfRow(args.main_table.rows[i])
                 /\ \A j \in 1..Len(args.note_table.rows) :
                       args.note_table.rows[j][1] \in MatchedNoteLabels(i) =>
                          DataValidator_extract_value(args.note_table, args.note_table.rows[j][1])
                             = ValueOfRow(args.note_table.rows[j])
        /\ \A n \in 1..Len(result) :
              /\ \E i \in 1..Len(args.main_table.rows) :
                    /\ args.main_table.rows[i][1] = result[n].main_item
                    /\ ValueOfRow(args.main_table.rows[i]) = result[n].main_value
              /\ \E j \in 1..Len(args.note_table.rows) :
                    /\ args.note_table.rows[j][1] = result[n].note_item
                    /\ ValueOfRow(args.note_table.rows[j]) = result[n].note_value

\* 流动资产 5 below 非流动资产 1, against 流动资产合计 5: a discrepancy for 流动资产
\* with the main value 1
C25_ValueOfAnotherRow ==
    /\ pc = "DataValidator._reconcile_tables"
    /\ args.main_table.rows = << <<FeiLiuDongZiChan, <<"1">>>>, <<LiuDongZiChan, <<"5">>>> >>
    /\ args.note_table.rows = << <<LiuDongZiChanHeJi, <<"5">>>> >>
    /\ \E n \in 1..Len(result) :
          /\ result[n].main_item = LiuDongZiChan
          /\ result[n].main_value = Int2Num(1)

(***************************************************************************)
(* C26.  The column validate_summation reads.                              *)
(***************************************************************************)
\* the column of the cell _extract_value returns for an item: the leftmost
\* parsable cell, among columns 1..3, of the first row whose label contains the
\* item and that has one; 0 when the item does not extract
ColumnRead(table, item_name) ==
    LET hits == {i \in MatchingRows(table.rows, <<item_name>>) :
                    ValueOfRow(table.rows[i]) # NoneVal}
        row == table.rows[MinOf(hits)]
    IN  IF NoneOrEmpty(table) \/ hits = {} THEN 0
        ELSE MinOf({c \in 2..Min(Len(row), 4) :
                       DataValidator_parse_number(row[c]) # NoneVal}) - 1

\* the sub-items of a rule that enter the sum
SummedItems(table, rule) ==
    {rule.sub_items[s] : s \in ExtractingSubItems(table, rule.sub_items)}

\* C26: in every comparison of validate_summation the total and the sub-items
\* that enter the sum are read from one column of the table
C26_OneColumnPerComparison ==
    pc = "DataValidator.validate_summation" =>
        \A r \in 1..Len(args.summation_rules) :
            LET rule == args.summation_rules[r]
            IN  (/\ ColumnRead(args.table, rule.total_item) # 0
                 /\ SummedItems(args.table, rule) # {})
                    => \A item \in SummedItems(args.table, rule) :
                          ColumnRead(args.table, item) = ColumnRead(args.table, rule.total_item)

\* 资产总计 reads 2 in its second value column, its first being unparsable, and
\* is compared with 流动资产 1 of the first value column: a discrepancy of 1
C26_MixedColumns ==
    /\ pc = "DataValidator.validate_summation"
    /\ tolerance = Int2Num(0)
    /\ args.table.rows = << <<LiuDongZiChan, <<"1">>, <<"-">>>>,
                            <<ZiChanZongJi, <<"-">>, <<"2">>>> >>
    /\ ColumnRead(args.table, ZiChanZongJi) = 2
    /\ ColumnRead(args.table, LiuDongZiChan) = 1
    /\ \E n \in 1..Len(result) :
          /\ result[n].reported_total = Int2Num(2)
          /\ result[n].calculated_total = Int2Num(1)

(***************************************************************************)
(* C27.  One canonical item per label.                                     *)
(***************************************************************************)
\* the registered items for which find_matching_items returns the label
CanonicalItemsOf(label) ==
    {item \in RegisteredItems : find_matching_items(item, <<label>>) = <<label>>}

\* C27: a label returned as a match for a registered item is returned for no
\* other registered item
C27_OneCanonicalItemPerLabel ==
    (pc = "ReconciliationRules.find_matching_items" /\ args.main_item \in RegisteredItems)
        => \A n \in 1..Len(result) : CanonicalItemsOf(result[n]) = {args.main_item}

\* 资产合计, a listed synonym of 资产总计, is returned for 净资产 as well, being
\* contained in the synonym 净资产合计
C27_SharedLabel ==
    /\ pc = "ReconciliationRules.find_matching_items"
    /\ args.main_item = JingZiChan
    /\ args.note_items = <<ZiChanHeJi>>
    /\ result = <<ZiChanHeJi>>
    /\ ZiChanZongJi \in CanonicalItemsOf(ZiChanHeJi)

(***************************************************************************)
(* C28.  A label matches itself.                                           *)
(***************************************************************************)
\* C28: for every non-empty item name x, find_matching_items(x, [x]) returns [x]
C28_MatchingIsReflexive ==
    (/\ pc = "ReconciliationRules.find_matching_items"
     /\ args.main_item # EmptyLabel
     /\ args.note_items = <<args.main_item>>)
        => result = <<args.main_item>>

\* the registered item 资产总计 is not matched to a note row labelled 资产总计
C28_RegisteredItemUnmatched ==
    /\ pc = "ReconciliationRules.find_matching_items"
    /\ args.main_item = ZiChanZongJi
    /\ args.note_items = <<ZiChanZongJi>>
    /\ result = <<>>

\* an item without registered synonyms is matched to itself
C28_UnregisteredItemMatched ==
    /\ pc = "ReconciliationRules.find_matching_items"
    /\ args.main_item = CunChuBaoZhengJin
    /\ args.note_items = <<CunChuBaoZhengJin>>
    /\ result = <<CunChuBaoZhengJin>>

(***************************************************************************)
(* FinancialReconciliation.extract_financial_data                          *)
(* (financial_reconciliation.py 155-297).  The sheets dict is a function   *)
(* from sheet names to tables, the financial data a function from keys to  *)
(* floats.                                                                 *)
(***************************************************************************)
JingZiChanBianDongBiao == <<"jing", "zi", "chan", "bian", "dong", "biao">>   \* 净资产变动表
QiChu == <<"qi", "chu1">>   \* 期初
JingZiChanMaoHao == <<"jing", "zi", "chan", "colon">>   \* 净资产：
\* 负债和所有者权益总计
FuZhaiHeSuoYouZheQuanYiZongJi ==
    <<"fu", "zhai", "he2", "suo", "you", "zhe", "quan2", "yi4", "zong", "ji4">>
\* 二、本期期初净资产
ErBenQiQiChuJingZiChan == <<"er4", "dun">> \o BenQiQiChuJingZiChan
\* 四、本期期末净资产
SiBenQiQiMoJingZiChan == <<"si4", "dun">> \o BenQiQiMoJingZiChan
\* 三、本期增减变动额
SanBenQiZengJianBianDongE == <<"san1", "dun">> \o BenQiZengJianBianDongE
JiJinJingZhi == <<"lparen", "ji", "jin", "jing", "zhi2", "rparen">>   \* （基金净值）
\* （减少以"-"号填列）
JianShaoTianLie ==
    <<"lparen", "jian", "shao", "yi3", "quote", "-", "quote", "hao", "tian", "lie", "rparen">>
\* （三）、本期向基金份额持有人分配利润
SanBenQiFenPeiLiRun ==
    <<"lparen", "san1", "rparen", "dun", "ben", "qi", "xiang4", "ji", "jin", "fen4", "e",
      "chi", "you", "ren", "fen", "pei", "li", "run">>
\* 产生的基金净值变动
ChanShengDeJiJinJingZhiBianDong ==
    <<"chan", "sheng", "de", "ji", "jin", "jing", "zhi2", "bian", "dong">>

\* dict.update(other), and data[key] = value as the update by a one-key dict
Update(data, other) ==
    [key \in DOMAIN data \cup DOMAIN other |->
        IF key \in DOMAIN other THEN other[key] ELSE data[key]]

\* for key, aliases in items: value = _find_value_in_df(df, aliases, col_index),
\* stored under every key of the entry when it is not None
RECURSIVE StoreLoop(_, _, _)
StoreLoop(df, stores, data) ==
    IF stores = <<>> THEN data
    ELSE LET value == FinancialReconciliation_find_value_in_df(
                          df, Head(stores).aliases, Head(stores).col_index)
         IN  StoreLoop(df, Tail(stores),
                       IF value # NoneVal
                       THEN Update(data, [key \in Head(stores).keys |-> value])
                       ELSE data)

Stores(items, col_index, Keys(_)) ==
    [i \in 1..Len(items) |->
        [keys |-> Keys(items[i].key), aliases |-> items[i].aliases, col_index |-> col_index]]

balance_sheet_items_to_extract ==
    << [key |-> ZiChanZongJi, aliases |-> <<ZiChanZongJi, ZiChanHeJi>>],
       [key |-> FuZhaiHeJi, aliases |-> <<FuZhaiHeJi, FuZhaiZongJi>>],
       [key |-> JingZiChanHeJi, aliases |-> <<JingZiChanHeJi, JingZiChanMaoHao, JingZiChan>>],
       [key |-> ShiShouJiJin, aliases |-> <<ShiShouJiJin>>],
       [key |-> WeiFenPeiLiRun, aliases |-> <<WeiFenPeiLiRun>>],
       [key |-> FuZhaiHeJingZiChanZongJi,
        aliases |-> <<FuZhaiHeJingZiChanZongJi, FuZhaiHeSuoYouZheQuanYiZongJi>>],
       [key |-> JiaoYiXingJinRongZiChan, aliases |-> <<JiaoYiXingJinRongZiChan>>],
       [key |-> GuPiaoTouZi, aliases |-> <<GuPiaoTouZi>>],
       [key |-> JiJinTouZi, aliases |-> <<JiJinTouZi>>],
       [key |-> ZhaiQuanTouZi, aliases |-> <<ZhaiQuanTouZi>>],
       [key |-> ZiChanZhiChiZhengQuanTouZi, aliases |-> <<ZiChanZhiChiZhengQuanTouZi>>],
       [key |-> GuiJinShuTouZi, aliases |-> <<GuiJinShuTouZi>>],
       [key |-> QiTaTouZi, aliases |-> <<QiTaTouZi>>] >>

FinancialReconciliation_extract_from_balance_sheet(df) ==
    StoreLoop(df,
              Stores(balance_sheet_items_to_extract, 2, LAMBDA key : {key, QiMo \o key})
                \o Stores(balance_sheet_items_to_extract, 3,
                          LAMBDA key : {QiChu \o key, ShangNianDuKeBiQuJian \o key}),
              <<>>)

income_statement_items_to_extract ==
    << [key |-> YingYeZongShouRu,
        aliases |-> << <<"yi1", "dun">> \o YingYeZongShouRu, YingYeZongShouRu >>],
       [key |-> YingYeZongZhiChu,
        aliases |-> << <<"er4", "dun">> \o YingYeZongZhiChu, YingYeZongZhiChu >>],
       [key |-> LiRunZongE, aliases |-> << <<"san1", "dun">> \o LiRunZongE, LiRunZongE >>],
       [key |-> JingLiRun, aliases |-> << <<"si4", "dun">> \o JingLiRun, JingLiRun >>],
       [key |-> SuoDeShuiFeiYong,
        aliases |-> << <<"wu3", "dun">> \o SuoDeShuiFeiYong, SuoDeShuiFeiYong >>],
       [key |-> QiTaZongHeShouYiDeShuiHouJingE,
        aliases |-> << <<"wu3", "dun">> \o QiTaZongHeShouYiDeShuiHouJingE,
                       QiTaZongHeShouYiDeShuiHouJingE >>],
       [key |-> ZongHeShouYiZongE,
        aliases |-> << <<"liu4", "dun">> \o ZongHeShouYiZongE, ZongHeShouYiZongE >>] >>

FinancialReconciliation_extract_from_income_statement(df) ==
    StoreLoop(df,
              Stores(income_statement_items_to_extract, 2, LAMBDA key : {key, BenQi \o key})
                \o Stores(income_statement_items_to_extract, 3, LAMBDA key : {ShangQi \o key}),
              <<>>)

net_asset_items_to_extract ==
    << [key |-> BenQiQiChuJingZiChan,
        aliases |-> <<ErBenQiQiChuJingZiChan \o JiJinJingZhi, ErBenQiQiChuJingZiChan>>],
       [key |-> BenQiQiMoJingZiChan,
        aliases |-> <<SiBenQiQiMoJingZiChan \o JiJinJingZhi, SiBenQiQiMoJingZiChan>>],
       [key |-> BenQiZengJianBianDongE,
        aliases |-> <<SanBenQiZengJianBianDongE \o JianShaoTianLie, SanBenQiZengJianBianDongE>>],
       [key |-> ZongHeShouYiZongE,
        aliases |-> << <<"lparen", "yi1", "rparen", "dun">> \o ZongHeShouYiZongE,
                       ZongHeShouYiZongE >>],
       [key |-> BenQiFenPeiLiRun,
        aliases |-> <<SanBenQiFenPeiLiRun \o ChanShengDeJiJinJingZhiBianDong,
                      SanBenQiFenPeiLiRun>>] >>

fund_items ==
    << [key |-> QiChuShiShouJiJin,
        aliases |-> <<ErBenQiQiChuJingZiChan \o JiJinJingZhi, ErBenQiQiChuJingZiChan>>],
       [key |-> QiMoShiShouJiJin,
        aliases |-> <<SiBenQiQiMoJingZiChan \o JiJinJingZhi, SiBenQiQiMoJingZiChan>>],
       [key |-> QiChuWeiFenPeiLiRun,
        aliases |-> <<ErBenQiQiChuJingZiChan \o JiJinJingZhi, ErBenQiQiChuJingZiChan>>],
       [key |-> QiMoWeiFenPeiLiRun,
        aliases |-> <<SiBenQiQiMoJingZiChan \o JiJinJingZhi, SiBenQiQiMoJingZiChan>>] >>

\* s.replace(old, '')
RECURSIVE RemoveAll(_, _)
RemoveAll(s, old) ==
    IF s = <<>> THEN <<>>
    ELSE IF Len(s) >= Len(old) /\ SubSeq(s, 1, Len(old)) = old
         THEN RemoveAll(SubSeq(s, Len(old) + 1, Len(s)), old)
    ELSE <<Head(s)>> \o RemoveAll(Tail(s), old)

\* the keys one value of the net-asset sheet is stored under: the key, and the
\* key without 本期 when it starts with 本期
NetAssetKeys(key) ==
    IF Len(key) >= Len(BenQi) /\ SubSeq(key, 1, Len(BenQi)) = BenQi
    THEN {key, RemoveAll(key, BenQi)}
    ELSE {key}

FundStores ==
    [i \in 1..Len(fund_items) |->
        [keys |-> {fund_items[i].key}, aliases |-> fund_items[i].aliases,
         col_index |-> IF Contains(fund_items[i].key, ShiShouJiJin) THEN 1 ELSE 2]]

\* data[end_key] - data[start_key]
ChangeOf(data, start_key, end_key) == Sub(data[end_key], data[start_key])

\* if start_key in data and end_key in data: data[change_key] = end - start
WithChange(data, start_key, end_key, change_key) ==
    IF start_key \in DOMAIN data /\ end_key \in DOMAIN data
    THEN Update(data, [key \in {change_key} |-> ChangeOf(data, start_key, end_key)])
    ELSE data

FinancialReconciliation_extract_from_net_asset_changes(df) ==
    LET data == StoreLoop(df,
                          Stores(net_asset_items_to_extract, 0 - 1, NetAssetKeys) \o FundStores,
                          <<>>)
    IN  WithChange(WithChange(data, QiChuShiShouJiJin, QiMoShiShouJiJin,
                              BenQiShiShouJiJinBianDong),
                   QiChuWeiFenPeiLiRun, QiMoWeiFenPeiLiRun, BenQiWeiFenPeiLiRunBianDong)

\* financial_data.update(extractor(sheets[name])) when the sheet is present
UpdateFrom(financial_data, sheets, name, Extractor(_)) ==
    IF name \in DOMAIN sheets THEN Update(financial_data, Extractor(sheets[name]))
    ELSE financial_data

FinancialReconciliation_extract_financial_data(sheets) ==
    UpdateFrom(
        UpdateFrom(
            UpdateFrom(<<>>, sheets, ZiChanFuZhaiBiao,
                       FinancialReconciliation_extract_from_balance_sheet),
            sheets, LiRunBiao, FinancialReconciliation_extract_from_income_statement),
        sheets, JingZiChanBianDongBiao, FinancialReconciliation_extract_from_net_asset_changes)

(***************************************************************************)
(* SpecExtracted: sheets handed to extract_financial_data, and the data it *)
(* returns handed to validate_reconciliation, under the tolerance 0 or the *)
(* default 0.01.  The net-asset sheet holds the opening row, the closing   *)
(* row, both or neither; its cells read a number, '-' or 'inf'.  The       *)
(* balance sheet and the income statement are absent or hold rows whose    *)
(* values differ from those of the net-asset sheet.                        *)
(***************************************************************************)
NetAssetColumns == <<XiangMu, ShiShouJiJin, WeiFenPeiLiRun, JingZiChanHeJi>>
FundCells == {<<"1">>, <<"3">>, <<"-">>, <<"i", "n", "f">>}
ProfitCells == {<<"2">>, <<"-">>, <<"i", "n", "f">>}
OpeningRows ==
    {<<ErBenQiQiChuJingZiChan \o JiJinJingZhi, f, p, <<"4">>>> : f \in FundCells, p \in ProfitCells}
ClosingRows ==
    {<<SiBenQiQiMoJingZiChan \o JiJinJingZhi, f, p, <<"6">>>> : f \in FundCells, p \in ProfitCells}
NetAssetSheets ==
    {Table(NetAssetColumns, opening \o closing) :
        opening \in {<<>>} \cup {<<r>> : r \in OpeningRows},
        closing \in {<<>>} \cup {<<r>> : r \in ClosingRows}}

\* 项目, 附注号, 本期末, 上年度末
BalanceSheetColumns == <<XiangMu, <<"fu4", "zhu", "hao">>, BenQiMo, <<"shang", "nian", "du", "mo">>>>
BalanceSheets ==
    {Table(BalanceSheetColumns,
           << <<ShiShouJiJin, <<"-">>, <<"7">>, <<"5">>>>,
              <<WeiFenPeiLiRun, <<"-">>, <<"9">>, <<"8">>>> >>)}
IncomeStatements ==
    {Table(<<XiangMu, <<"fu4", "zhu", "hao">>, BenQi, ShangQi>>,
           << << <<"si4", "dun">> \o JingLiRun, <<"-">>, <<"1">>, <<"2">>>> >>)}

SheetsOf(names, balance, income, net_asset) ==
    [name \in names |->
        CASE name = ZiChanFuZhaiBiao -> balance
          [] name = LiRunBiao -> income
          [] OTHER -> net_asset]

InitExtracted ==
    /\ tolerance \in {Int2Num(0), Num(1, 2)}
    /\ validation_results = <<>>
    /\ pc = "call"
    /\ \E names \in SUBSET {ZiChanFuZhaiBiao, LiRunBiao, JingZiChanBianDongBiao} :
       \E balance \in BalanceSheets, income \in IncomeStatements, net_asset \in NetAssetSheets :
           args = [sheets |-> SheetsOf(names, balance, income, net_asset)]
    /\ result = NoneVal

Call_extract_financial_data ==
    /\ pc = "call"
    /\ "sheets" \in DOMAIN args
    /\ result' = FinancialReconciliation_extract_financial_data(args.sheets)
    /\ pc' = "FinancialReconciliation.extract_financial_data"
    /\ UNCHANGED <<tolerance, validation_results, args>>

\* validate_reconciliation(financial_data) on the data just extracted
Call_validate_reconciliation_extracted ==
    /\ pc = "FinancialReconciliation.extract_financial_data"
    /\ args' = [sheets |-> args.sheets, financial_data |-> result]
    /\ result' = FinancialReconciliation_validate_reconciliation(result)
    /\ pc' = "FinancialReconciliation.validate_reconciliation"
    /\ UNCHANGED <<tolerance, validation_results>>

NextExtracted ==
    \/ Call_extract_financial_data
    \/ Call_validate_reconciliation_extracted

SpecExtracted == InitExtracted /\ [][NextExtracted]_vars

(***************************************************************************)
(* C29.  The rules 实收基金变动 and 未分配利润变动 on extracted data.      *)
(***************************************************************************)
ChangeRules == {ShiShouJiJinBianDong, WeiFenPeiLiRunBianDong}
Validated == pc = "FinancialReconciliation.validate_reconciliation" /\ "sheets" \in DOMAIN args

\* C29: on data produced by extract_financial_data the rules 实收基金变动 and
\* 未分配利润变动, when they are evaluated, give difference 0 and pass
C29_ChangeRulesNeverFail ==
    Validated =>
        \A n \in 1..Len(result) :
            result[n].name \in ChangeRules
                => result[n].difference = Int2Num(0) /\ result[n].is_pass

\* a closing 实收基金 that reads 'inf': the change is inf, the difference nan, and
\* the rule fails
C29_InfiniteValueFails ==
    /\ Validated
    /\ {QiMoShiShouJiJin, BenQiShiShouJiJinBianDong} \subseteq DOMAIN args.financial_data
    /\ args.financial_data[QiMoShiShouJiJin] = Inf(1)
    /\ args.financial_data[BenQiShiShouJiJinBianDong] = Inf(1)
    /\ \E n \in 1..Len(result) :
           /\ result[n].name = ShiShouJiJinBianDong
           /\ result[n].difference = NaN
           /\ ~result[n].is_pass

\* both rules evaluated on numbers under the tolerance 0: difference 0, passed;
\* the values are those of the net-asset sheet although the balance sheet
\* stored other values under the same keys
C29_NumbersPass ==
    /\ Validated
    /\ tolerance = Int2Num(0)
    /\ ZiChanFuZhaiBiao \in DOMAIN args.sheets
    /\ BenQiShiShouJiJinBianDong \in DOMAIN args.financial_data
    /\ args.financial_data[QiChuShiShouJiJin] = Int2Num(1)
    /\ args.financial_data[QiMoShiShouJiJin] = Int2Num(3)
    /\ args.financial_data[BenQiShiShouJiJinBianDong] = Int2Num(2)
    /\ \A name \in ChangeRules :
           \E n \in 1..Len(result) :
               /\ result[n].name = name
               /\ result[n].difference = Int2Num(0)
               /\ result[n].is_pass

====
